---- MODULE Spec2Model ----
(***************************************************************************)
(* State-machine model of fossil-algo.  The graph algorithm engine         *)
(* (code/logic/ml.c, graph section): the dispatcher                        *)
(* fossil_algorithm_graph_exec, the catalog predicates, and the BFS, DFS   *)
(* and Dijkstra engines, each loop iteration / recursion step one action.  *)
(* Its sibling entry points: the string algorithms                         *)
(* (fossil_algorithm_cstring_exec and the CString wrapper) and the dynamic *)
(* programming module (fossil_algorithm_dynamic_create / _exec and the     *)
(* Dynamic wrapper), one action per call.                                  *)
(***************************************************************************)
EXTENDS Integers, Sequences, FiniteSets, TLC

\* ---------------------------------------------------------------- bounds

\* Largest node_count of a modelled graph.
MaxNodes == 3
\* Largest number of edges stored in a modelled graph.
MaxEdges == 2
\* Largest size, nodes plus edges, of a modelled graph.
MaxSize == 5
\* Latest invocation on which a modelled visitor answers false.
MaxStop == 2
\* Longest string handed to the string algorithms.
MaxLen == 2
\* Most key/value pairs handed to one dynamic exec.
MaxParams == 2
\* Most samples of a modelled dataset.
MaxSamples == 2
\* Most features of a modelled dataset.
MaxFeatures == 1

\* ------------------------------------------------------------- constants

\* <float.h> DBL_MAX, the sentinel graph_dijkstra uses for "no path yet".
\* Doubles are modelled by the integers 0..DBL_MAX on a shrunken scale: a sum
\* that reaches or passes DBL_MAX stands for a double sum that is DBL_MAX or
\* overflows to +inf (either way it is not < DBL_MAX).
DBL_MAX == 2
\* UINT64_MAX, the "no node selected" marker of graph_dijkstra's scan; any
\* value that is no node id of a modelled graph serves.
UINT64_MAX == 1000
\* Arrays one call holds at the same time (visited+queue, dist+used).
ArraysPerCall == 2
\* Cells of the local buffer of CString::exec (char buffer[1024]), on the
\* scale of the modelled strings: strings of BUFFER_SIZE characters and more
\* stand for inputs of 1024 characters and more.
BUFFER_SIZE == 3

\* The null pointer passed as algorithm_id; distinct from every C string.
NULL == "<null>"
\* A null visitor function pointer.
NoVisitor == -1
\* Content of a malloc'ed cell that was never written.
Garbage == -1
\* An array that is not allocated.
NoArray == << >>
\* graph->adj == NULL (stub graphs declare node_count but own no lists).
AdjNull == [n \in {-1} |-> << >>]
\* A null output buffer.
NoBuffer == [i \in {-1} |-> "<null>"]
\* A null fossil_dynamic_t handle.
NoHandle == [algorithm |-> "<null>", state |-> "<null>", live |-> FALSE]
\* A null fossil_ml_model_t pointer.
NoModel ==
    [algorithm |-> "<null>", features |-> 0, weights |-> -1, centroids |-> -1,
     k |-> 0, live |-> FALSE]
\* A null fossil_ml_dataset_t pointer.
NoDataset == [samples |-> 0, features |-> 0, labelled |-> FALSE, null |-> TRUE]
\* No catalog predicate was asked.
NoAnswers == [supported |-> FALSE, requires_weights |-> FALSE]

VARIABLES
    g,              \* the Graph Store: node_count, directed, weighted, adj
    heap,           \* arrays the allocator can still hand out
    stale,          \* contents left in freed blocks (what malloc returns)
    pc,             \* idle | bfs | dfs | dijkstra | done | undefined
                    \* (answered: after a catalog lookup)
    round,          \* 0 before the first call, then 1, 2
    graph_arg,      \* TRUE: exec is handed &g; FALSE: a NULL graph
    algorithm_id,
    start_node,
    target_node,
    visit,          \* NoVisitor, 0 (never stops) or k (false on k-th call)
    rc,             \* status returned by exec
    visited,        \* bool *visited (bfs, dfs)
    queue,          \* uint64_t *queue (bfs)
    head,
    tail,
    stack,          \* activation records of dfs_visit
    retval,         \* value returned by the dfs_visit that returned last
    dist,           \* double *dist (dijkstra)
    used,           \* bool *used (dijkstra)
    calls,          \* node ids handed to the visitor, in order
    marked,         \* nodes marked in visited when the array was freed
    prev            \* outcome of the previous call of the same arguments

\* State of the sibling entry points and of the catalog lookups.
VARIABLES
    binding,        \* "C": the C function was called; "C++": the wrapper class
    answers,        \* what the catalog predicates answered on algorithm_id
    input,          \* cstring: const char *input
    arg,            \* cstring: const char *arg
    output,         \* cstring: the cells of char *output (NoBuffer: NULL)
    output_size,    \* cstring: size_t output_size
    cxx_output,     \* CString::exec: the caller's std::string (NULL: none)
    alg,            \* dynamic: the handle (NoHandle, or its algorithm, state)
    created_id,     \* dynamic: the identifier passed to create
    ran,            \* dynamic: the algorithm the last exec ran (NULL: none)
    param,          \* dynamic: the key/value pairs, param_count = Len(param)
    metric          \* dynamic: TRUE when a metric callback is passed

\* State of the machine-learning entry points.
VARIABLES
    model,          \* ml: the model (NoModel, or its fields; weights and
                    \* centroids hold the cells allocated, -1 for NULL)
    dataset,        \* ml: the dataset of the last exec (NoDataset: NULL)
    phase,          \* ml: the phase of the last exec
    trained         \* ml: a linear-regression TRAIN on model has returned 0

\* The variables only the machine-learning entry points write.
learner == << model, dataset, phase, trained >>

\* The variables only the sibling entry points and the lookups write.
siblings == << binding, answers, input, arg, output, output_size, cxx_output,
               alg, created_id, ran, param, metric, learner >>

\* The variables only the graph engine writes.
engine == << g, heap, stale, round, graph_arg, start_node, target_node, visit,
             visited, queue, head, tail, stack, retval, dist, used, calls,
             marked, prev >>

vars == << g, heap, stale, pc, round, graph_arg, algorithm_id, start_node,
           target_node, visit, rc, visited, queue, head, tail, stack, retval,
           dist, used, calls, marked, prev, siblings >>

\* ------------------------------------------------------------ the inputs

Nodes(n) == 0 .. (n - 1)

Weights == 0 .. DBL_MAX

AlgorithmIds ==
    { NULL, "", "bfs", "dfs", "dijkstra", "bellman-ford", "floyd-warshall",
      "mst-kruskal", "BFS", "Dijkstra", "bf" }

\* An edge list as the owner registers it: (from, to, weight) triples.
EdgeTriples(n, ws) == [from : Nodes(n), to : Nodes(n), weight : ws]

EdgeLists(n, ws) ==
    UNION { [1 .. k -> EdgeTriples(n, ws)] :
              k \in { j \in 0 .. MaxEdges : n + j <= MaxSize } }

RECURSIVE OutEdges(_, _)
OutEdges(list, v) ==
    IF list = << >> THEN << >>
    ELSE LET e == Head(list)
             rest == OutEdges(Tail(list), v)
         IN IF e.from = v
            THEN << [to |-> e.to, weight |-> e.weight] >> \o rest
            ELSE rest

Adjacency(n, list) == [v \in Nodes(n) |-> OutEdges(list, v)]

\* Graphs the owner can hand over, up to MaxNodes nodes, MaxEdges edges and
\* MaxSize of both together: every destination in [0, node_count); an
\* unweighted graph stores the unit weight on every edge.
Graphs ==
    { [node_count |-> n, directed |-> d, weighted |-> w, adj |-> a] :
        n \in 0 .. MaxNodes, d \in BOOLEAN, w \in BOOLEAN, a \in {AdjNull} }
    \cup
    UNION { UNION {
        { [node_count |-> n, directed |-> d, weighted |-> w,
           adj |-> Adjacency(n, l)] :
            d \in BOOLEAN, l \in EdgeLists(n, IF w THEN Weights ELSE {1}) }
        : w \in BOOLEAN } : n \in 0 .. MaxNodes }

EdgeCount(gr) ==
    IF gr.adj = AdjNull THEN 0
    ELSE LET RECURSIVE Sum(_)
             Sum(S) == IF S = {} THEN 0
                       ELSE LET v == CHOOSE x \in S : TRUE
                            IN Len(gr.adj[v]) + Sum(S \ {v})
         IN Sum(DOMAIN gr.adj)

\* ------------------------------------------------------------ the catalog

algorithm_equals(a, b) == a # NULL /\ b # NULL /\ a = b

\* Mutant: only the routed shortest-path algorithm is listed.
requires_weights_routed_only(id) ==
    IF id = NULL THEN FALSE ELSE algorithm_equals(id, "dijkstra")

fossil_algorithm_graph_requires_weights(id) ==
    IF id = NULL THEN FALSE
    ELSE \/ algorithm_equals(id, "dijkstra")
         \/ algorithm_equals(id, "bellman-ford")
         \/ algorithm_equals(id, "floyd-warshall")

\* Mutant: the catalog also admits the reserved shortest-path names.
supported_with_reserved(id) ==
    IF id = NULL THEN FALSE
    ELSE \/ algorithm_equals(id, "bfs")
         \/ algorithm_equals(id, "dfs")
         \/ fossil_algorithm_graph_requires_weights(id)

fossil_algorithm_graph_supported(id) ==
    IF id = NULL THEN FALSE
    ELSE \/ algorithm_equals(id, "bfs")
         \/ algorithm_equals(id, "dfs")
         \/ algorithm_equals(id, "dijkstra")

\* ------------------------------------------------------------ the visitor

\* Answer of the caller's visitor on its n-th invocation (its context counts).
visit_fn(k, n) == k = 0 \/ n # k

\* ---------------------------------------------------------- the allocator

\* Mutant: the flags come from malloc, which hands back a freed block as is.
malloc_bool(n) ==
    IF stale.visited # NoArray /\ DOMAIN stale.visited = Nodes(n)
    THEN stale.visited
    ELSE [i \in Nodes(n) |-> FALSE]

calloc_bool(n) == [i \in Nodes(n) |-> FALSE]

malloc_cells(n, old) ==
    IF old # NoArray /\ DOMAIN old = Nodes(n) THEN old
    ELSE [i \in Nodes(n) |-> Garbage]

\* Mutant: the list of the next node is walked (index off by one).
EdgesOfNext(v) ==
    IF g.adj = AdjNull THEN << >> ELSE g.adj[(v + 1) % g.node_count]

\* Mutant: on an undirected graph the reverse of every stored edge is walked
\* as well.
EdgesOfUndirected(v) ==
    IF g.adj = AdjNull THEN << >>
    ELSE LET RECURSIVE Into(_, _)
             Into(u, es) ==
                IF es = << >> THEN << >>
                ELSE (IF Head(es).to = v
                      THEN << [to |-> u, weight |-> Head(es).weight] >>
                      ELSE << >>) \o Into(u, Tail(es))
             RECURSIVE Reversed(_)
             Reversed(u) ==
                IF u >= g.node_count THEN << >>
                ELSE Into(u, g.adj[u]) \o Reversed(u + 1)
         IN IF g.directed THEN g.adj[v] ELSE g.adj[v] \o Reversed(0)

\* Mutant: the adjacency list is walked from its last edge to its first.
EdgesOfBackwards(v) ==
    IF g.adj = AdjNull THEN << >>
    ELSE [i \in 1 .. Len(g.adj[v]) |-> g.adj[v][Len(g.adj[v]) + 1 - i]]

\* The adjacency list walked for node v (NULL adj: no edges).
EdgesOf(v) == IF g.adj = AdjNull THEN << >> ELSE g.adj[v]

\* --------------------------------------------------------- the dispatcher

\* What every return leaves behind: no array allocated, no frame.
Returned(status) ==
    [pc |-> "done", rc |-> status, visited |-> NoArray, queue |-> NoArray,
     head |-> 0, tail |-> 0, stack |-> << >>, dist |-> NoArray,
     used |-> NoArray]

\* Mutant: start is queued without being marked visited.
graph_bfs_start_unmarked(ga, s) ==
    IF ~ga \/ s >= g.node_count THEN Returned(-2)
    ELSE IF g.node_count = 0 THEN Returned(-2)
    ELSE IF heap < 1 THEN Returned(-1)
    ELSE IF heap < 2 THEN Returned(-1)
    ELSE [Returned(0) EXCEPT
            !.pc = "bfs",
            !.visited = calloc_bool(g.node_count),
            !.queue = [malloc_cells(g.node_count, stale.queue) EXCEPT ![0] = s],
            !.head = 0,
            !.tail = 1]

\* graph_bfs up to its loop: validation, allocation, seeding of the queue.
graph_bfs(ga, s) ==
    IF ~ga \/ s >= g.node_count THEN Returned(-2)
    ELSE IF g.node_count = 0 THEN Returned(-2)
    ELSE IF heap < 1 THEN Returned(-1)
    ELSE IF heap < 2 THEN Returned(-1)
    ELSE [Returned(0) EXCEPT
            !.pc = "bfs",
            !.visited = [calloc_bool(g.node_count) EXCEPT ![s] = TRUE],
            !.queue = [malloc_cells(g.node_count, stale.queue) EXCEPT ![0] = s],
            !.head = 0,
            !.tail = 1]

\* Mutant: a failed calloc is reported as invalid input.
graph_dfs_alloc_invalid(ga, s) ==
    IF ~ga \/ s >= g.node_count THEN Returned(-2)
    ELSE IF g.node_count = 0 THEN Returned(-2)
    ELSE IF heap < 1 THEN Returned(-2)
    ELSE [Returned(0) EXCEPT
            !.pc = "dfs",
            !.visited = calloc_bool(g.node_count),
            !.stack = << [v |-> s, e |-> << >>, at |-> "entry"] >>]

\* graph_dfs up to its call of dfs_visit(graph, start, ...).
graph_dfs(ga, s) ==
    IF ~ga \/ s >= g.node_count THEN Returned(-2)
    ELSE IF g.node_count = 0 THEN Returned(-2)
    ELSE IF heap < 1 THEN Returned(-1)
    ELSE [Returned(0) EXCEPT
            !.pc = "dfs",
            !.visited = calloc_bool(g.node_count),
            !.stack = << [v |-> s, e |-> << >>, at |-> "entry"] >>]

\* graph_dijkstra up to its main loop: validation, allocation, dist[] set up.
graph_dijkstra(ga, s, t) ==
    IF ~ga \/ ~g.weighted THEN Returned(-4)
    ELSE IF s >= g.node_count \/ t >= g.node_count THEN Returned(-2)
    ELSE IF g.node_count = 0 THEN Returned(-2)
    ELSE IF heap < 2 THEN Returned(-1)
    ELSE [Returned(0) EXCEPT
            !.pc = "dijkstra",
            !.dist = [i \in Nodes(g.node_count) |->
                        IF i = s THEN 0 ELSE DBL_MAX],
            !.used = calloc_bool(g.node_count)]

\* Mutant: only the graph handle is checked.
exec_null_graph_only(ga, id) == ~ga

\* The null checks that open fossil_algorithm_graph_exec.
exec_null_args(ga, id) == ~ga \/ id = NULL

\* Mutant: the empty-graph check is missing.
exec_no_empty_check == FALSE

\* The empty-graph check of fossil_algorithm_graph_exec.
exec_empty_graph == g.node_count = 0

\* The node-id check of the bfs/dfs branch.
exec_bad_start(s) == s >= g.node_count

\* The node-id check of the dijkstra branch.
exec_bad_endpoints(s, t) == s >= g.node_count \/ t >= g.node_count

\* Mutant: the dispatcher leaves the weightedness check to the engine.
exec_no_weight_check == FALSE

\* The weightedness check of the dijkstra branch.
exec_unweighted == ~g.weighted

\* The bfs/dfs branch of fossil_algorithm_graph_exec.
exec_traversal(ga, id, s) ==
    IF exec_bad_start(s) THEN Returned(-2)
    ELSE IF algorithm_equals(id, "bfs") THEN graph_bfs(ga, s)
    ELSE graph_dfs(ga, s)

\* Mutant: a bad endpoint is reported with the "not reachable" status.
exec_shortest_path_unreachable(ga, s, t) ==
    IF exec_unweighted THEN Returned(-4)
    ELSE IF exec_bad_endpoints(s, t) THEN Returned(-1)
    ELSE graph_dijkstra(ga, s, t)

\* The dijkstra branch of fossil_algorithm_graph_exec.
exec_shortest_path(ga, s, t) ==
    IF exec_unweighted THEN Returned(-4)
    ELSE IF exec_bad_endpoints(s, t) THEN Returned(-2)
    ELSE graph_dijkstra(ga, s, t)

\* fossil_algorithm_graph_exec: the state in which the call either has
\* returned (pc = "done") or stands at the head of an engine's loop.
exec_dispatch(ga, id, s, t) ==
    IF exec_null_args(ga, id) THEN Returned(-2)
    ELSE IF ~fossil_algorithm_graph_supported(id) THEN Returned(-3)
    ELSE IF exec_empty_graph THEN Returned(-2)
    ELSE IF algorithm_equals(id, "bfs") \/ algorithm_equals(id, "dfs")
    THEN exec_traversal(ga, id, s)
    ELSE IF algorithm_equals(id, "dijkstra")
    THEN exec_shortest_path(ga, s, t)
    ELSE Returned(-3)

fossil_algorithm_graph_exec(ga, id, s, t, vis) ==
    LET after == exec_dispatch(ga, id, s, t)
    IN /\ graph_arg' = ga
       /\ algorithm_id' = id
       /\ start_node' = s
       /\ target_node' = t
       /\ visit' = vis
       /\ pc' = after.pc
       /\ rc' = after.rc
       /\ visited' = after.visited
       /\ queue' = after.queue
       /\ head' = after.head
       /\ tail' = after.tail
       /\ stack' = after.stack
       /\ dist' = after.dist
       /\ used' = after.used
       /\ retval' = TRUE
       /\ calls' = << >>
       /\ marked' = {}
       /\ UNCHANGED << siblings, g, heap, stale >>

\* ------------------------------------------------------------------- BFS

\* Mutant: every edge enqueues its destination, visited or not.
RECURSIVE bfs_edges_unchecked(_, _, _, _)
bfs_edges_unchecked(es, vis, q, t) ==
    IF es = << >> THEN [visited |-> vis, queue |-> q, tail |-> t, ub |-> FALSE]
    ELSE LET e == Head(es)
         IN IF e.to \notin DOMAIN vis \/ t \notin DOMAIN q
            THEN [visited |-> vis, queue |-> q, tail |-> t, ub |-> TRUE]
            ELSE bfs_edges_unchecked(Tail(es), [vis EXCEPT ![e.to] = TRUE],
                                     [q EXCEPT ![t] = e.to], t + 1)

\* Mutant: a destination is queued without being marked visited.
RECURSIVE bfs_edges_unmarked(_, _, _, _)
bfs_edges_unmarked(es, vis, q, t) ==
    IF es = << >> THEN [visited |-> vis, queue |-> q, tail |-> t, ub |-> FALSE]
    ELSE LET e == Head(es)
         IN IF e.to \notin DOMAIN vis
            THEN [visited |-> vis, queue |-> q, tail |-> t, ub |-> TRUE]
            ELSE IF ~vis[e.to]
            THEN IF t \notin DOMAIN q
                 THEN [visited |-> vis, queue |-> q, tail |-> t, ub |-> TRUE]
                 ELSE bfs_edges_unmarked(Tail(es), vis, [q EXCEPT ![t] = e.to],
                                         t + 1)
            ELSE bfs_edges_unmarked(Tail(es), vis, q, t)

\* The edge loop of graph_bfs for one dequeued node.  ub: the loop indexed
\* visited or queue outside the node_count cells of the array.
RECURSIVE bfs_edges(_, _, _, _)
bfs_edges(es, vis, q, t) ==
    IF es = << >> THEN [visited |-> vis, queue |-> q, tail |-> t, ub |-> FALSE]
    ELSE LET e == Head(es)
         IN IF e.to \notin DOMAIN vis
            THEN [visited |-> vis, queue |-> q, tail |-> t, ub |-> TRUE]
            ELSE IF ~vis[e.to]
            THEN IF t \notin DOMAIN q
                 THEN [visited |-> [vis EXCEPT ![e.to] = TRUE], queue |-> q,
                       tail |-> t, ub |-> TRUE]
                 ELSE bfs_edges(Tail(es), [vis EXCEPT ![e.to] = TRUE],
                                [q EXCEPT ![t] = e.to], t + 1)
            ELSE bfs_edges(Tail(es), vis, q, t)

MarkedIn(vis) == { i \in DOMAIN vis : vis[i] }

\* free(queue); free(visited); return 0;
bfs_return ==
    /\ pc' = "done"
    /\ rc' = 0
    /\ marked' = MarkedIn(visited)
    /\ stale' = [stale EXCEPT !.visited = visited, !.queue = queue]
    /\ visited' = NoArray
    /\ queue' = NoArray
    /\ tail' = 0

\* One iteration of while (head < tail).
graph_bfs_loop ==
    /\ pc = "bfs"
    /\ head < tail
    /\ LET v == queue[head]
           called == visit # NoVisitor
           stop == called /\ ~visit_fn(visit, Len(calls) + 1)
           ex == bfs_edges(EdgesOf(v), visited, queue, tail)
       IN /\ calls' = IF called THEN Append(calls, v) ELSE calls
          /\ IF stop
             THEN /\ bfs_return
                  /\ head' = 0
             ELSE /\ head' = head + 1
                  /\ visited' = ex.visited
                  /\ queue' = ex.queue
                  /\ tail' = ex.tail
                  /\ pc' = IF ex.ub THEN "undefined" ELSE pc
                  /\ UNCHANGED << rc, marked, stale >>
    /\ UNCHANGED << siblings, g, heap, round, graph_arg, algorithm_id, start_node,
                    target_node, visit, stack, retval, dist, used, prev >>

\* The loop test fails: the queue is drained.
graph_bfs_exit ==
    /\ pc = "bfs"
    /\ ~(head < tail)
    /\ bfs_return
    /\ head' = 0
    /\ UNCHANGED << siblings, g, heap, round, graph_arg, algorithm_id, start_node,
                    target_node, visit, stack, retval, dist, used, calls,
                    prev >>

\* ------------------------------------------------------------------- DFS

Top == stack[Len(stack)]

Pop == SubSeq(stack, 1, Len(stack) - 1)

SetTop(f) == [stack EXCEPT ![Len(stack)] = f]

\* Mutant: the caller goes on with its next edge whatever the callee returned.
child_never_stops == FALSE

\* if (!dfs_visit(graph, e->to, ...)): the recursive call returned false.
child_stopped == ~retval

\* dfs_visit from its first statement to the start of its edge loop.
dfs_visit_entry ==
    /\ pc = "dfs"
    /\ stack # << >>
    /\ Top.at = "entry"
    /\ LET v == Top.v
           called == visit # NoVisitor
           stop == called /\ ~visit_fn(visit, Len(calls) + 1)
       IN /\ visited' = [visited EXCEPT ![v] = TRUE]
          /\ calls' = IF called THEN Append(calls, v) ELSE calls
          /\ IF stop
             THEN /\ stack' = Pop
                  /\ retval' = FALSE
             ELSE /\ stack' = SetTop([v |-> v, e |-> EdgesOf(v), at |-> "loop"])
                  /\ retval' = retval
    /\ UNCHANGED << siblings, g, heap, stale, pc, round, graph_arg, algorithm_id,
                    start_node, target_node, visit, rc, queue, head, tail,
                    dist, used, marked, prev >>

\* The test of dfs_visit's edge loop and, for an edge, the visited test and
\* the recursive call; return true when the list is exhausted.
dfs_visit_loop ==
    /\ pc = "dfs"
    /\ stack # << >>
    /\ Top.at = "loop"
    /\ IF Top.e = << >>
       THEN /\ stack' = Pop
            /\ retval' = TRUE
            /\ pc' = pc
       ELSE IF Head(Top.e).to \notin DOMAIN visited
       THEN /\ pc' = "undefined"
            /\ UNCHANGED << stack, retval >>
       ELSE IF ~visited[Head(Top.e).to]
       THEN /\ stack' = Append(SetTop([Top EXCEPT !.at = "call"]),
                               [v |-> Head(Top.e).to, e |-> << >>,
                                at |-> "entry"])
            /\ retval' = retval
            /\ pc' = pc
       ELSE /\ stack' = SetTop([Top EXCEPT !.e = Tail(Top.e)])
            /\ retval' = retval
            /\ pc' = pc
    /\ UNCHANGED << siblings, g, heap, stale, round, graph_arg, algorithm_id,
                    start_node, target_node, visit, rc, visited, queue, head,
                    tail, dist, used, calls, marked, prev >>

\* The recursive call came back: if (!dfs_visit(...)) return false;
dfs_visit_returned ==
    /\ pc = "dfs"
    /\ stack # << >>
    /\ Top.at = "call"
    /\ IF child_stopped
       THEN stack' = Pop
       ELSE stack' = SetTop([Top EXCEPT !.e = Tail(Top.e), !.at = "loop"])
    /\ UNCHANGED << siblings, g, heap, stale, pc, round, graph_arg, algorithm_id,
                    start_node, target_node, visit, rc, visited, queue, head,
                    tail, retval, dist, used, calls, marked, prev >>

\* graph_dfs after dfs_visit(graph, start, ...): free(visited); return 0;
graph_dfs_return ==
    /\ pc = "dfs"
    /\ stack = << >>
    /\ pc' = "done"
    /\ rc' = 0
    /\ marked' = MarkedIn(visited)
    /\ stale' = [stale EXCEPT !.visited = visited]
    /\ visited' = NoArray
    /\ UNCHANGED << siblings, g, heap, round, graph_arg, algorithm_id, start_node,
                    target_node, visit, queue, head, tail, stack, retval,
                    dist, used, calls, prev >>

\* -------------------------------------------------------------- Dijkstra

\* Mutant: the scan does not look at used[].
RECURSIVE dijkstra_scan_used(_, _, _, _)
dijkstra_scan_used(i, v, d, u) ==
    IF i >= g.node_count THEN v
    ELSE dijkstra_scan_used(i + 1,
                            IF v = UINT64_MAX \/ d[i] < d[v] THEN i ELSE v,
                            d, u)

\* Mutant: the scan takes the first unused node that has been reached.
RECURSIVE dijkstra_scan_first(_, _, _, _)
dijkstra_scan_first(i, v, d, u) ==
    IF i >= g.node_count THEN v
    ELSE dijkstra_scan_first(i + 1,
                             IF ~u[i] /\ v = UINT64_MAX /\ d[i] # DBL_MAX
                             THEN i ELSE v,
                             d, u)

\* The linear scan for the unused node of least tentative distance.
RECURSIVE dijkstra_scan(_, _, _, _)
dijkstra_scan(i, v, d, u) ==
    IF i >= g.node_count THEN v
    ELSE dijkstra_scan(i + 1,
                       IF ~u[i] /\ (v = UINT64_MAX \/ d[i] < d[v])
                       THEN i ELSE v,
                       d, u)

\* The relaxation loop over the edges leaving v.  ub: the loop indexed dist
\* outside its node_count cells.
RECURSIVE dijkstra_relax(_, _, _)
dijkstra_relax(es, v, d) ==
    IF es = << >> THEN [dist |-> d, ub |-> FALSE]
    ELSE LET e == Head(es)
             alt == d[v] + e.weight
         IN IF e.to \notin DOMAIN d THEN [dist |-> d, ub |-> TRUE]
            ELSE dijkstra_relax(Tail(es), v,
                                IF alt < d[e.to]
                                THEN [d EXCEPT ![e.to] = alt]
                                ELSE d)

Selected == dijkstra_scan(0, UINT64_MAX, dist, used)

\* if (v == UINT64_MAX || dist[v] == DBL_MAX) break;
ScanBreaks ==
    IF Selected = UINT64_MAX THEN TRUE ELSE dist[Selected] = DBL_MAX

\* One pass of for (;;) that does not break.
graph_dijkstra_loop ==
    /\ pc = "dijkstra"
    /\ ~ScanBreaks
    /\ used' = [used EXCEPT ![Selected] = TRUE]
    /\ LET relaxed == dijkstra_relax(EdgesOf(Selected), Selected, dist)
       IN /\ dist' = relaxed.dist
          /\ pc' = IF relaxed.ub THEN "undefined" ELSE pc
    /\ UNCHANGED << siblings, g, heap, stale, round, graph_arg, algorithm_id,
                    start_node, target_node, visit, rc, visited, queue, head,
                    tail, stack, retval, calls, marked, prev >>

\* Mutant: the engine reports the target to the visitor before it returns.
graph_dijkstra_exit_visiting ==
    /\ pc = "dijkstra"
    /\ ScanBreaks
    /\ pc' = "done"
    /\ rc' = IF dist[target_node] = DBL_MAX THEN -1 ELSE 0
    /\ calls' = IF visit # NoVisitor THEN << target_node >> ELSE calls
    /\ stale' = [stale EXCEPT !.dist = dist, !.used = used]
    /\ dist' = NoArray
    /\ used' = NoArray
    /\ UNCHANGED << siblings, g, heap, round, graph_arg, algorithm_id,
                    start_node, target_node, visit, visited, queue, head,
                    tail, stack, retval, marked, prev >>

\* The break, the result, free(dist); free(used); return result;
graph_dijkstra_exit ==
    /\ pc = "dijkstra"
    /\ ScanBreaks
    /\ pc' = "done"
    /\ rc' = IF dist[target_node] = DBL_MAX THEN -1 ELSE 0
    /\ stale' = [stale EXCEPT !.dist = dist, !.used = used]
    /\ dist' = NoArray
    /\ used' = NoArray
    /\ UNCHANGED << siblings, g, heap, round, graph_arg, algorithm_id, start_node,
                    target_node, visit, visited, queue, head, tail, stack,
                    retval, calls, marked, prev >>

\* --------------------------------------------------------- the callers

\* Node ids a caller passes: the valid ones and one past the end.
NodeIds == 0 .. g.node_count

\* Visitors a caller passes: none, one that never stops, one that stops on
\* its k-th invocation.
Visitors == {NoVisitor} \cup (0 .. MaxStop)

NoOutcome == [rc |-> 0, calls |-> << >>, marked |-> {}]

\* All stored weights are the unit weight.
UnitWeights ==
    \A v \in DOMAIN g.adj : \A i \in 1 .. Len(g.adj[v]) :
        g.adj[v][i].weight = 1

\* The calls explored on the graph.  A graph that stores no edge takes every
\* combination of arguments.  A graph with edges takes the calls that reach
\* an engine's loop: bfs and dfs from every node, with every visitor and a
\* target_node in and out of range, when its weights are all 1 or it stores
\* a single edge (of any weight); dijkstra, if it is weighted, between every
\* two nodes, without a visitor (and, when it stores a single edge, with one
\* that never stops).
Calls ==
    IF EdgeCount(g) = 0
    THEN [ga : BOOLEAN, id : AlgorithmIds, s : NodeIds, t : NodeIds,
          vis : Visitors]
    ELSE (IF UnitWeights \/ EdgeCount(g) = 1
          THEN [ga : {TRUE}, id : {"bfs", "dfs"}, s : Nodes(g.node_count),
                t : {0, g.node_count}, vis : Visitors]
          ELSE {})
         \cup
         (IF g.weighted
          THEN [ga : {TRUE}, id : {"dijkstra"}, s : Nodes(g.node_count),
                t : Nodes(g.node_count),
                vis : IF EdgeCount(g) = 1 THEN {NoVisitor, 0}
                      ELSE {NoVisitor}]
          ELSE {})

\* A caller asks both catalog predicates about an identifier.
Lookup ==
    /\ pc = "idle"
    /\ \E id \in AlgorithmIds :
            /\ algorithm_id' = id
            /\ answers' =
                  [supported |-> fossil_algorithm_graph_supported(id),
                   requires_weights |->
                       fossil_algorithm_graph_requires_weights(id)]
    /\ pc' = "answered"
    /\ UNCHANGED << engine, rc, binding, input, arg, output, output_size,
                    cxx_output, alg, created_id, ran, param, metric, learner >>

\* A caller's first call on the graph.
Call ==
    /\ pc = "idle"
    /\ \E c \in Calls :
            fossil_algorithm_graph_exec(c.ga, c.id, c.s, c.t, c.vis)
    /\ round' = 1
    /\ prev' = prev

\* A traversal repeated with the same arguments on the unmodified graph.
CallAgain ==
    /\ pc = "done"
    /\ round = 1
    /\ algorithm_id \in {"bfs", "dfs"}
    /\ fossil_algorithm_graph_exec(graph_arg, algorithm_id, start_node,
                                   target_node, visit)
    /\ round' = 2
    /\ prev' = [rc |-> rc, calls |-> calls, marked |-> marked]

\* The engines' locals and the graph arguments at rest.
EngineAtRest ==
    /\ stale = [visited |-> NoArray, queue |-> NoArray, dist |-> NoArray,
                used |-> NoArray]
    /\ round = 0
    /\ graph_arg = FALSE
    /\ start_node = 0
    /\ target_node = 0
    /\ visit = NoVisitor
    /\ visited = NoArray
    /\ queue = NoArray
    /\ head = 0
    /\ tail = 0
    /\ stack = << >>
    /\ retval = TRUE
    /\ dist = NoArray
    /\ used = NoArray
    /\ calls = << >>
    /\ marked = {}
    /\ prev = NoOutcome

\* No call made yet.
NoCall ==
    /\ pc = "idle"
    /\ algorithm_id = NULL
    /\ rc = 0
    /\ EngineAtRest

\* No dynamic handle created, no dynamic algorithm run.
NoHandleYet ==
    /\ alg = NoHandle
    /\ created_id = NULL
    /\ ran = NULL

\* No model created, no machine-learning call made.
NoModelYet ==
    /\ model = NoModel
    /\ dataset = NoDataset
    /\ phase = "TRAIN"
    /\ trained = FALSE

\* The sibling entry points unused.
NoSibling ==
    /\ binding = "C"
    /\ answers = NoAnswers
    /\ input = NULL
    /\ arg = NULL
    /\ output = NoBuffer
    /\ output_size = 0
    /\ cxx_output = NULL
    /\ NoHandleYet
    /\ NoModelYet
    /\ param = << >>
    /\ metric = FALSE

Init ==
    /\ g \in Graphs
    /\ heap = ArraysPerCall
    /\ NoCall
    /\ NoSibling

Next ==
    \/ Lookup
    \/ Call
    \/ CallAgain
    \/ graph_bfs_loop
    \/ graph_bfs_exit
    \/ dfs_visit_entry
    \/ dfs_visit_loop
    \/ dfs_visit_returned
    \/ graph_dfs_return
    \/ graph_dijkstra_loop
    \/ graph_dijkstra_exit

Spec == Init /\ [][Next]_vars

\* The same callers with an allocator that may have fewer than the
\* ArraysPerCall blocks left: calloc or malloc can then return NULL.
InitOOM ==
    /\ g \in Graphs
    /\ heap \in 0 .. ArraysPerCall
    /\ NoCall
    /\ NoSibling

SpecOOM == InitOOM /\ [][Next]_vars

\* Graphs of three nodes s, a, b that store the edges s -> a, s -> b and
\* a -> b, s -> a before or after s -> b, with unit weights: b is a
\* neighbour of s that is also reached through a.
Diamonds ==
    { [node_count |-> 3, directed |-> d, weighted |-> w,
       adj |-> Adjacency(3, l)] :
        d \in BOOLEAN, w \in BOOLEAN,
        l \in UNION { IF s = a \/ s = b \/ a = b THEN {}
                      ELSE { << [from |-> s, to |-> a, weight |-> 1],
                                [from |-> s, to |-> b, weight |-> 1],
                                [from |-> a, to |-> b, weight |-> 1] >>,
                             << [from |-> s, to |-> b, weight |-> 1],
                                [from |-> s, to |-> a, weight |-> 1],
                                [from |-> a, to |-> b, weight |-> 1] >> } :
                      s \in Nodes(3), a \in Nodes(3), b \in Nodes(3) } }

\* Weighted graphs of three nodes s, a, b that store s -> a of weight 1, the
\* lighter way round, s -> b and b -> a of weight 0, and a -> s of weight 0:
\* a's tentative distance is lowered after it was first set, and a's edge
\* leads back to s.
Shortcuts ==
    { [node_count |-> 3, directed |-> d, weighted |-> TRUE,
       adj |-> Adjacency(3, l)] :
        d \in BOOLEAN,
        l \in UNION { IF s = a \/ s = b \/ a = b THEN {}
                      ELSE { << [from |-> s, to |-> a, weight |-> 1],
                                [from |-> s, to |-> b, weight |-> 0],
                                [from |-> b, to |-> a, weight |-> 0],
                                [from |-> a, to |-> s, weight |-> 0] >>,
                             << [from |-> s, to |-> b, weight |-> 0],
                                [from |-> s, to |-> a, weight |-> 1],
                                [from |-> b, to |-> a, weight |-> 0],
                                [from |-> a, to |-> s, weight |-> 0] >> } :
                      s \in Nodes(3), a \in Nodes(3), b \in Nodes(3) } }

\* The callers of Spec on the graphs of Spec, on the diamonds and on the
\* shortcuts.
InitDeep ==
    /\ g \in Graphs \cup Diamonds \cup Shortcuts
    /\ heap = ArraysPerCall
    /\ NoCall
    /\ NoSibling

SpecDeep == InitDeep /\ [][Next]_vars

\* Graphs that break the owner's obligation: node_count itself is stored as
\* the destination of at least one edge.
WildGraphs ==
    UNION { UNION {
        { [node_count |-> n, directed |-> d, weighted |-> w,
           adj |-> Adjacency(n, l)] :
            d \in BOOLEAN,
            l \in { x \in UNION { [1 .. k -> [from : Nodes(n), to : 0 .. n,
                                              weight : IF w THEN Weights
                                                       ELSE {1}]] :
                                     k \in { j \in 1 .. MaxEdges :
                                               n + j <= MaxSize } } :
                      \E i \in DOMAIN x : x[i].to = n } }
        : w \in BOOLEAN } : n \in 1 .. MaxNodes }

\* The callers of Spec on the graphs of Spec and on the graphs with a
\* destination out of range.
InitWild ==
    /\ g \in Graphs \cup WildGraphs
    /\ heap = ArraysPerCall
    /\ NoCall
    /\ NoSibling

SpecWild == InitWild /\ [][Next]_vars

\* A statement of one of the three engines.
EngineStep ==
    \/ graph_bfs_loop
    \/ graph_bfs_exit
    \/ dfs_visit_entry
    \/ dfs_visit_loop
    \/ dfs_visit_returned
    \/ graph_dfs_return
    \/ graph_dijkstra_loop
    \/ graph_dijkstra_exit

\* The callers of Spec with an engine that keeps running: a call is ordinary
\* sequential C, and its next statement executes as long as there is one.
SpecLive == Init /\ [][Next]_vars /\ WF_vars(EngineStep)

\* ------------------------------------------------- the string algorithms

\* Characters of the modelled strings: a lower-case letter, its upper-case
\* form, and another letter.
Alphabet == {"a", "A", "b"}

\* The terminating '\0' as a buffer cell.
NUL == "<NUL>"

\* A buffer cell that was never written.
Junk == "<junk>"

\* The C strings of at most n characters ("" is the empty string).
RECURSIVE StringsUpTo(_)
StringsUpTo(n) ==
    IF n = 0 THEN {""}
    ELSE LET S == StringsUpTo(n - 1)
         IN S \cup { s \o c : s \in S, c \in Alphabet }

Strings == StringsUpTo(MaxLen)

CStringIds ==
    { NULL, "", "find", "rfind", "count", "equals", "iequals", "toupper",
      "tolower", "reverse", "compare", "Reverse", "notalgo" }

algo_eq(a, b) == a # NULL /\ b # NULL /\ a = b

\* <ctype.h> toupper / tolower on the modelled characters.
toupper(c) == IF c = "a" THEN "A" ELSE IF c = "b" THEN "B" ELSE c

tolower(c) == IF c = "A" THEN "a" ELSE IF c = "B" THEN "b" ELSE c

\* &s[i]: the string that starts at index i (0-based) of s.
From(s, i) == SubSeq(s, i + 1, Len(s))

\* s[i] for i < strlen(s).
CharAt(s, i) == Head(From(s, i))

\* strncmp(p, sub, strlen(sub)) == 0
strncmp_eq(p, sub) == Len(sub) <= Len(p) /\ SubSeq(p, 1, Len(sub)) = sub

\* The C string held in a buffer: the cells before the first NUL.
RECURSIVE CStrFrom(_, _)
CStrFrom(buf, i) ==
    IF i \notin DOMAIN buf THEN ""
    ELSE IF buf[i] = NUL THEN ""
    ELSE buf[i] \o CStrFrom(buf, i + 1)

CStr(buf) == CStrFrom(buf, 0)

cstring_find(s, sub) ==
    IF s = NULL \/ sub = NULL THEN -2
    ELSE LET hits == { i \in 0 .. Len(s) : strncmp_eq(From(s, i), sub) }
         IN IF hits = {} THEN -1
            ELSE CHOOSE i \in hits : \A j \in hits : i <= j

RECURSIVE rfind_loop(_, _, _, _)
rfind_loop(s, sub, i, last) ==
    IF i >= Len(s) THEN last
    ELSE rfind_loop(s, sub, i + 1,
                    IF strncmp_eq(From(s, i), sub) THEN i ELSE last)

cstring_rfind(s, sub) ==
    IF s = NULL \/ sub = NULL THEN -2 ELSE rfind_loop(s, sub, 0, -1)

RECURSIVE count_loop(_, _, _, _)
count_loop(s, sub, i, count) ==
    IF i >= Len(s) THEN count
    ELSE count_loop(s, sub, i + 1,
                    IF strncmp_eq(From(s, i), sub) THEN count + 1 ELSE count)

cstring_count(s, sub) ==
    IF s = NULL \/ sub = NULL THEN -2
    ELSE IF sub = "" THEN -2
    ELSE count_loop(s, sub, 0, 0)

\* Both arguments non-null (strcmp dereferences them).
cstring_equals(a, b) == IF a = b THEN 1 ELSE -1

\* Both arguments non-null.
RECURSIVE cstring_iequals(_, _)
cstring_iequals(a, b) ==
    IF a # "" /\ b # ""
    THEN IF tolower(Head(a)) # tolower(Head(b)) THEN -1
         ELSE cstring_iequals(Tail(a), Tail(b))
    ELSE IF a = "" /\ b = "" THEN 1 ELSE -1

\* The copy loop shared in shape by cstring_toupper and cstring_tolower.
RECURSIVE case_loop(_, _, _, _, _)
case_loop(s, out, n, i, upper) ==
    IF i < Len(s) /\ i + 1 < n
    THEN case_loop(s,
                   [out EXCEPT ![i] = IF upper THEN toupper(CharAt(s, i))
                                      ELSE tolower(CharAt(s, i))],
                   n, i + 1, upper)
    ELSE [rc |-> 0, output |-> [out EXCEPT ![i] = NUL]]

cstring_toupper(s, out, n) ==
    IF out = NoBuffer \/ n = 0 THEN [rc |-> -2, output |-> out]
    ELSE case_loop(s, out, n, 0, TRUE)

cstring_tolower(s, out, n) ==
    IF out = NoBuffer \/ n = 0 THEN [rc |-> -2, output |-> out]
    ELSE case_loop(s, out, n, 0, FALSE)

\* Mutant: the terminator is not counted (n < len instead of n <= len); the
\* write of out[len] then falls outside a buffer of len cells and is lost.
cstring_reverse_off_by_one(s, out, n) ==
    IF out = NoBuffer \/ n < Len(s) THEN [rc |-> -2, output |-> out]
    ELSE [rc |-> 0,
          output |-> [j \in DOMAIN out |->
                        IF j < Len(s) THEN CharAt(s, Len(s) - 1 - j)
                        ELSE IF j = Len(s) THEN NUL
                        ELSE out[j]]]

cstring_reverse(s, out, n) ==
    IF out = NoBuffer \/ n <= Len(s) THEN [rc |-> -2, output |-> out]
    ELSE [rc |-> 0,
          output |-> [j \in DOMAIN out |->
                        IF j < Len(s) THEN CharAt(s, Len(s) - 1 - j)
                        ELSE IF j = Len(s) THEN NUL
                        ELSE out[j]]]

\* A status returned without touching the output.
Status(status, out) == [rc |-> status, output |-> out, ub |-> FALSE]

\* A transform's result.
Transformed(r) == [rc |-> r.rc, output |-> r.output, ub |-> FALSE]

\* strcmp / *b on a null arg: undefined behaviour.
NullDeref(out) == [rc |-> 0, output |-> out, ub |-> TRUE]

\* Mutant: the catalog lists the documented "compare" as well.
cstring_supported_documented(id) ==
    \/ algo_eq(id, "find")
    \/ algo_eq(id, "rfind")
    \/ algo_eq(id, "count")
    \/ algo_eq(id, "equals")
    \/ algo_eq(id, "iequals")
    \/ algo_eq(id, "compare")
    \/ algo_eq(id, "toupper")
    \/ algo_eq(id, "tolower")
    \/ algo_eq(id, "reverse")

fossil_algorithm_cstring_supported(id) ==
    \/ algo_eq(id, "find")
    \/ algo_eq(id, "rfind")
    \/ algo_eq(id, "count")
    \/ algo_eq(id, "equals")
    \/ algo_eq(id, "iequals")
    \/ algo_eq(id, "toupper")
    \/ algo_eq(id, "tolower")
    \/ algo_eq(id, "reverse")

\* fossil_algorithm_cstring_exec: status, output cells after the call, and
\* whether the call ran into undefined behaviour.
cstring_dispatch(in, a, id, out, n) ==
    IF in = NULL \/ id = NULL THEN Status(-2, out)
    ELSE IF algo_eq(id, "find") THEN Status(cstring_find(in, a), out)
    ELSE IF algo_eq(id, "rfind") THEN Status(cstring_rfind(in, a), out)
    ELSE IF algo_eq(id, "count") THEN Status(cstring_count(in, a), out)
    ELSE IF algo_eq(id, "equals")
    THEN IF a = NULL THEN NullDeref(out)
         ELSE Status(cstring_equals(in, a), out)
    ELSE IF algo_eq(id, "iequals")
    THEN IF a = NULL THEN NullDeref(out)
         ELSE Status(cstring_iequals(in, a), out)
    ELSE IF algo_eq(id, "toupper") THEN Transformed(cstring_toupper(in, out, n))
    ELSE IF algo_eq(id, "tolower") THEN Transformed(cstring_tolower(in, out, n))
    ELSE IF algo_eq(id, "reverse") THEN Transformed(cstring_reverse(in, out, n))
    ELSE Status(-3, out)

\* How a call can end: a defined call returns its status; a read through the
\* null arg either traps or yields some bytes, on which the comparison
\* answers 1 or -1.
Endings(r) ==
    IF r.ub
    THEN { [pc |-> "undefined", rc |-> rc], [pc |-> "done", rc |-> 1],
           [pc |-> "done", rc |-> -1] }
    ELSE { [pc |-> "done", rc |-> r.rc] }

\* A caller's call of the C function.
fossil_algorithm_cstring_exec ==
    /\ pc = "idle"
    /\ binding = "C"
    /\ LET r == cstring_dispatch(input, arg, algorithm_id, output, output_size)
       IN /\ output' = r.output
          /\ \E end \in Endings(r) :
                /\ pc' = end.pc
                /\ rc' = end.rc
    /\ UNCHANGED << engine, algorithm_id, binding, answers, input, arg,
                    output_size, cxx_output, alg, created_id, ran, param,
                    metric, learner >>

\* char buffer[1024] = {0};
ZeroedBuffer == [i \in 0 .. (BUFFER_SIZE - 1) |-> NUL]

\* CString::exec: the C function run on a zeroed local buffer, an empty arg
\* passed as nullptr, the buffer copied out on success.
CString_exec ==
    /\ pc = "idle"
    /\ binding = "C++"
    /\ LET a == IF arg = "" THEN NULL ELSE arg
           out == IF cxx_output # NULL THEN ZeroedBuffer ELSE NoBuffer
           r == cstring_dispatch(input, a, algorithm_id, out, BUFFER_SIZE)
       IN /\ arg' = a
          /\ output' = r.output
          /\ output_size' = BUFFER_SIZE
          /\ \E end \in Endings(r) :
                /\ pc' = end.pc
                /\ rc' = end.rc
                /\ cxx_output' =
                      IF cxx_output # NULL /\ end.pc = "done" /\ end.rc >= 0
                      THEN CStr(r.output)
                      ELSE cxx_output
    /\ UNCHANGED << engine, algorithm_id, binding, answers, input, alg,
                    created_id, ran, param, metric, learner >>

\* A graph handle no call of these specifications uses.
StubGraph ==
    [node_count |-> 0, directed |-> FALSE, weighted |-> FALSE, adj |-> AdjNull]

\* The graph engine unused.
NoGraphCall ==
    /\ g = StubGraph
    /\ heap = ArraysPerCall
    /\ EngineAtRest
    /\ pc = "idle"
    /\ rc = 0
    /\ answers = NoAnswers

\* A caller-owned buffer of n cells, not yet written.
FreshBuffer(n) == [i \in 0 .. (n - 1) |-> Junk]

InitCString ==
    /\ NoGraphCall
    /\ NoHandleYet
    /\ NoModelYet
    /\ param = << >>
    /\ metric = FALSE
    /\ algorithm_id \in CStringIds
    /\ binding \in {"C", "C++"}
    /\ IF binding = "C"
       THEN /\ input \in Strings \cup {NULL}
            /\ arg \in Strings \cup {NULL}
            /\ output_size \in 0 .. (MaxLen + 1)
            /\ output \in {NoBuffer, FreshBuffer(output_size)}
            /\ cxx_output = NULL
       ELSE /\ algorithm_id # NULL
            /\ input \in Strings
            /\ arg \in Strings
            /\ output_size = 0
            /\ output = NoBuffer
            /\ cxx_output \in {NULL, ""}

NextCString ==
    \/ fossil_algorithm_cstring_exec
    \/ CString_exec

SpecCString == InitCString /\ [][NextCString]_vars

\* ------------------------------------------ the dynamic-programming module

\* int: the bounds of the 32-bit two's complement range.
INT_MAX == 2147483647

INT_MIN == -INT_MAX - 1

\* a + b in a 32-bit int. Signed overflow is undefined; wrapped is the value
\* a wrapping build computes, over reports that the sum left the range.
add32(a, b) ==
    IF b > 0 /\ a > INT_MAX - b
    THEN [wrapped |-> (a - INT_MAX - 1) + (b - INT_MAX - 1), over |-> TRUE]
    ELSE IF b < 0 /\ a < INT_MIN - b
    THEN [wrapped |-> (a + INT_MAX + 1) + (b + INT_MAX + 1), over |-> TRUE]
    ELSE [wrapped |-> a + b, over |-> FALSE]

\* The decimal digits and their values.
Digits ==
    [c \in {"0", "1", "2", "3", "4", "5", "6", "7", "8", "9"} |->
        CASE c = "0" -> 0 [] c = "1" -> 1 [] c = "2" -> 2 [] c = "3" -> 3
          [] c = "4" -> 4 [] c = "5" -> 5 [] c = "6" -> 6 [] c = "7" -> 7
          [] c = "8" -> 8 [] c = "9" -> 9]

\* <stdlib.h> atoi after the sign: the leading digits of s, accumulated.
RECURSIVE atoi_digits(_, _)
atoi_digits(s, acc) ==
    IF s = "" THEN acc
    ELSE IF Head(s) \notin DOMAIN Digits THEN acc
    ELSE atoi_digits(Tail(s), 10 * acc + Digits[Head(s)])

\* <stdlib.h> atoi: leading blanks, an optional sign, then digits; 0 when
\* there is no digit.
RECURSIVE atoi(_)
atoi(s) ==
    IF s = "" THEN 0
    ELSE IF Head(s) = " " THEN atoi(Tail(s))
    ELSE IF Head(s) = "-" THEN 0 - atoi_digits(Tail(s), 0)
    ELSE IF Head(s) = "+" THEN atoi_digits(Tail(s), 0)
    ELSE atoi_digits(s, 0)

\* sizeof(alg->algorithm)
ALGORITHM_SIZE == 32

str_eq(a, b) == a # NULL /\ b # NULL /\ a = b

\* strncpy(alg->algorithm, id, sizeof(alg->algorithm) - 1) into zeroed
\* memory: at most ALGORITHM_SIZE - 1 characters of id are kept.
strncpy_algorithm(id) ==
    IF Len(id) <= ALGORITHM_SIZE - 1 THEN id
    ELSE SubSeq(id, 1, ALGORITHM_SIZE - 1)

\* What an algorithm hands back: its result, and whether computing it went
\* through undefined behaviour.
Result(v) == [rc |-> v, ub |-> FALSE]

\* exec_dp_fib: one turn of the loop on the pair (a, b).
fib_step(st) ==
    LET tmp == add32(st.a, st.b)
    IN [a |-> st.b, b |-> tmp.wrapped, ub |-> st.ub \/ tmp.over]

\* exec_dp_fib; after[i] is the pair once the loop has finished turn i.
exec_dp_fib(n) ==
    IF n < 0 THEN Result(-1)
    ELSE IF n <= 1 THEN Result(n)
    ELSE LET after[i \in 1 .. n] ==
                 IF i = 1 THEN [a |-> 0, b |-> 1, ub |-> FALSE]
                 ELSE fib_step(after[i - 1])
         IN [rc |-> after[n].b, ub |-> after[n].ub]

\* exec_dp_knapsack: the inner loop, w from capacity down to weights[i].
RECURSIVE knapsack_weights(_, _, _, _)
knapsack_weights(dp, w, wt, val) ==
    IF w < wt THEN dp
    ELSE LET candidate == dp[w - wt] + val
         IN knapsack_weights(IF candidate > dp[w]
                             THEN [dp EXCEPT ![w] = candidate]
                             ELSE dp,
                             w - 1, wt, val)

\* exec_dp_knapsack: the outer loop over the items i .. n - 1.
RECURSIVE knapsack_items(_, _, _, _, _, _)
knapsack_items(dp, i, n, values, weights, capacity) ==
    IF i >= n THEN dp
    ELSE knapsack_items(
             knapsack_weights(dp, capacity, weights[i], values[i]),
             i + 1, n, values, weights, capacity)

\* exec_dp_knapsack accepting an empty item list.
exec_dp_knapsack_empty_ok(values, weights, n, capacity) ==
    IF capacity < 0 THEN [rc |-> 0, ub |-> TRUE]
    ELSE LET dp == knapsack_items([w \in 0 .. capacity |-> 0], 0, n, values,
                                  weights, capacity)
         IN Result(dp[capacity])

\* exec_dp_knapsack. values and weights are the dispatcher's local arrays,
\* never null. A negative capacity makes dp[capacity] a read outside the
\* allocation; non-negative weights keep the other indices inside it.
exec_dp_knapsack(values, weights, n, capacity) ==
    IF n <= 0 THEN Result(-2)
    ELSE IF capacity < 0 THEN [rc |-> 0, ub |-> TRUE]
    ELSE LET dp == knapsack_items([w \in 0 .. capacity |-> 0], 0, n, values,
                                  weights, capacity)
         IN Result(dp[capacity])

\* exec_dp_lcs: dp[i * (n + 1) + j], the table entry for the first i
\* characters of a and the first j of b (row 0 and column 0 stay 0).
RECURSIVE lcs_cell(_, _, _, _)
lcs_cell(a, b, i, j) ==
    IF i = 0 \/ j = 0 THEN 0
    ELSE IF CharAt(a, i - 1) = CharAt(b, j - 1)
    THEN lcs_cell(a, b, i - 1, j - 1) + 1
    ELSE LET x == lcs_cell(a, b, i - 1, j)
             y == lcs_cell(a, b, i, j - 1)
         IN IF x > y THEN x ELSE y

exec_dp_lcs(a, b) ==
    IF a = NULL \/ b = NULL THEN Result(-2)
    ELSE Result(lcs_cell(a, b, Len(a), Len(b)))

\* The dispatcher's loop `if (str_eq(param[i].key, key)) n = atoi(value)`:
\* the last matching pair wins; atoi of a null value is undefined.
RECURSIVE scan_int(_, _, _, _)
scan_int(p, key, n, ub) ==
    IF p = << >> THEN [n |-> n, ub |-> ub]
    ELSE IF ~str_eq(Head(p).key, key) THEN scan_int(Tail(p), key, n, ub)
    ELSE IF Head(p).value = NULL THEN scan_int(Tail(p), key, n, TRUE)
    ELSE scan_int(Tail(p), key, atoi(Head(p).value), ub)

\* The dispatcher's loop `if (str_eq(param[i].key, key)) s = value`.
RECURSIVE scan_str(_, _, _)
scan_str(p, key, s) ==
    IF p = << >> THEN s
    ELSE IF str_eq(Head(p).key, key) THEN scan_str(Tail(p), key, Head(p).value)
    ELSE scan_str(Tail(p), key, s)

\* int values[100] = {0}, weights[100] = {0};
ZeroedItems == [i \in 0 .. 99 |-> 0]

\* What fossil_algorithm_dynamic_exec hands back: the status, the algorithm
\* it ran (NULL: none), and whether the run went through undefined behaviour.
Refused(status) == [rc |-> status, ran |-> NULL, ub |-> FALSE]

Ran(name, r, ub) == [rc |-> r.rc, ran |-> name, ub |-> r.ub \/ ub]

\* fossil_algorithm_dynamic_exec dispatching on algorithm_id alone.
dynamic_dispatch_by_id_only(h, id, p) ==
    IF h = NoHandle \/ id = NULL THEN Refused(-2)
    ELSE IF str_eq(id, "dp-fib")
    THEN LET n == scan_int(p, "n", 10, FALSE)
         IN Ran("dp-fib", exec_dp_fib(n.n), n.ub)
    ELSE IF str_eq(id, "dp-knapsack")
    THEN LET capacity == scan_int(p, "capacity", 50, FALSE)
         IN Ran("dp-knapsack",
                exec_dp_knapsack(ZeroedItems, ZeroedItems, 0, capacity.n),
                capacity.ub)
    ELSE IF str_eq(id, "dp-lcs")
    THEN Ran("dp-lcs",
             exec_dp_lcs(scan_str(p, "a", "abc"), scan_str(p, "b", "ac")),
             FALSE)
    ELSE Refused(-3)

\* fossil_algorithm_dynamic_exec on the handle h (NoHandle: a null alg). The
\* metric callback is only handed on to exec_dp_knapsack, whose loop calls it
\* once per item and never uses its answer.
dynamic_dispatch(h, id, p) ==
    IF h = NoHandle \/ id = NULL THEN Refused(-2)
    ELSE IF ~str_eq(h.algorithm, id) THEN Refused(-3)
    ELSE IF str_eq(id, "dp-fib")
    THEN LET n == scan_int(p, "n", 10, FALSE)
         IN Ran("dp-fib", exec_dp_fib(n.n), n.ub)
    ELSE IF str_eq(id, "dp-knapsack")
    THEN LET capacity == scan_int(p, "capacity", 50, FALSE)
         IN Ran("dp-knapsack",
                exec_dp_knapsack(ZeroedItems, ZeroedItems, 0, capacity.n),
                capacity.ub)
    ELSE IF str_eq(id, "dp-lcs")
    THEN Ran("dp-lcs",
             exec_dp_lcs(scan_str(p, "a", "abc"), scan_str(p, "b", "ac")),
             FALSE)
    ELSE Refused(-3)

fossil_algorithm_dynamic_supported(id) ==
    \/ str_eq(id, "dp-fib")
    \/ str_eq(id, "dp-knapsack")
    \/ str_eq(id, "dp-lcs")
    \/ str_eq(id, "adaptive-search")

\* An identifier longer than the handle's algorithm field, and the part of
\* it the field keeps.
LongId == "dp-longest-common-subsequence-v2"

KeptId == strncpy_algorithm(LongId)

\* Identifiers the callers pass (NULL apart).
DynamicIds ==
    { "", "dp-fib", "dp-knapsack", "dp-lcs", "adaptive-search", "notalgo",
      LongId, KeptId }

\* Key/value pairs the callers pass: fossil_dynamic_param_t.
ParamPairs ==
    { [key |-> "n", value |-> "7"],
      [key |-> "n", value |-> "-1"],
      [key |-> "n", value |-> "47"],
      [key |-> "n", value |-> NULL],
      [key |-> "capacity", value |-> "5"],
      [key |-> "capacity", value |-> NULL],
      [key |-> "a", value |-> "ab"],
      [key |-> "b", value |-> NULL],
      [key |-> NULL, value |-> "7"] }

\* The param arrays of at most n pairs; param_count is the length.
RECURSIVE ParamsUpTo(_)
ParamsUpTo(n) ==
    IF n = 0 THEN { << >> }
    ELSE LET shorter == ParamsUpTo(n - 1)
         IN shorter \cup { Append(p, kv) : p \in shorter, kv \in ParamPairs }

Params == ParamsUpTo(MaxParams)

\* The handle calloc and strncpy build for id.
NewHandle(id) ==
    [algorithm |-> strncpy_algorithm(id), state |-> NULL, live |-> TRUE]

\* The graph engine and the string algorithms unused by these calls.
OnlyDynamic ==
    UNCHANGED << engine, answers, input, arg, output, output_size, cxx_output,
                 learner >>

\* fossil_algorithm_dynamic_create called from C; calloc is taken to succeed.
fossil_algorithm_dynamic_create ==
    /\ pc = "idle"
    /\ binding = "C"
    /\ \E id \in DynamicIds \cup {NULL} :
          /\ created_id' = id
          /\ alg' = IF id = NULL THEN NoHandle ELSE NewHandle(id)
    /\ pc' = "created"
    /\ UNCHANGED << algorithm_id, rc, binding, ran, param, metric >>
    /\ OnlyDynamic

\* Dynamic::create: algorithm_id.c_str() is never null.
Dynamic_create ==
    /\ pc = "idle"
    /\ binding = "C++"
    /\ \E id \in DynamicIds :
          /\ created_id' = id
          /\ alg' = NewHandle(id)
    /\ pc' = "created"
    /\ UNCHANGED << algorithm_id, rc, binding, ran, param, metric >>
    /\ OnlyDynamic

\* A run that went through undefined behaviour either traps or returns what
\* a wrapping build computed.
DynamicEndings(r) ==
    IF r.ub
    THEN { [pc |-> "undefined", rc |-> rc], [pc |-> "done", rc |-> r.rc] }
    ELSE { [pc |-> "done", rc |-> r.rc] }

\* exec on the caller's handle, which is null before create and when create
\* returned NULL. exec leaves the handle as it found it, so one call per
\* handle shows what every call does.
exec_call(id, p, m) ==
    /\ pc \in {"idle", "created"}
    /\ algorithm_id' = id
    /\ param' = p
    /\ metric' = m
    /\ LET r == dynamic_dispatch(alg, id, p)
       IN /\ ran' = r.ran
          /\ \E end \in DynamicEndings(r) :
                /\ pc' = end.pc
                /\ rc' = end.rc
    /\ UNCHANGED << binding, alg, created_id >>
    /\ OnlyDynamic

\* fossil_algorithm_dynamic_exec called from C.
fossil_algorithm_dynamic_exec ==
    /\ binding = "C"
    /\ \E id \in DynamicIds \cup {NULL}, p \in Params, m \in BOOLEAN :
          exec_call(id, p, m)

\* Dynamic::exec: algorithm_id.c_str() is never null.
Dynamic_exec ==
    /\ binding = "C++"
    /\ \E id \in DynamicIds, p \in Params, m \in BOOLEAN :
          exec_call(id, p, m)

\* fossil_algorithm_dynamic_destroy, also behind Dynamic::destroy: a null
\* handle is left alone, a live one is freed and not used again.
fossil_algorithm_dynamic_destroy ==
    /\ pc \in {"created", "done"}
    /\ alg' = IF alg = NoHandle THEN alg ELSE [alg EXCEPT !.live = FALSE]
    /\ pc' = "destroyed"
    /\ UNCHANGED << algorithm_id, rc, binding, created_id, ran, param, metric >>
    /\ OnlyDynamic

InitDynamic ==
    /\ NoGraphCall
    /\ NoHandleYet
    /\ NoModelYet
    /\ algorithm_id = NULL
    /\ binding \in {"C", "C++"}
    /\ input = NULL
    /\ arg = NULL
    /\ output = NoBuffer
    /\ output_size = 0
    /\ cxx_output = NULL
    /\ param = << >>
    /\ metric = FALSE

NextDynamic ==
    \/ fossil_algorithm_dynamic_create
    \/ Dynamic_create
    \/ fossil_algorithm_dynamic_exec
    \/ Dynamic_exec
    \/ fossil_algorithm_dynamic_destroy

SpecDynamic == InitDynamic /\ [][NextDynamic]_vars

\* ------------------------------------------- the machine-learning module

\* A fresh model: calloc(1, sizeof(*m)) and the strncpy of the identifier
\* into char algorithm[32]; weights and centroids are NULL.
NewModel(id) ==
    [algorithm |-> strncpy_algorithm(id), features |-> 0, weights |-> -1,
     centroids |-> -1, k |-> 0, live |-> TRUE]

\* Datasets the callers hand over: x holds samples * features cells, y holds
\* samples cells when the dataset is labelled and is NULL otherwise.
Datasets ==
    { [samples |-> n, features |-> f, labelled |-> l, null |-> FALSE] :
        n \in 0 .. MaxSamples, f \in 0 .. MaxFeatures, l \in BOOLEAN }

\* Identifiers the callers pass to exec: none, the two implemented
\* algorithms, one the header lists without an implementation.
MlIds == { NULL, "linear-regression", "kmeans", "svm" }

\* Identifiers the callers create models for. exec never reads the model's
\* algorithm field, so one identifier stands for all.
ModelIds == { NULL, "linear-regression" }

\* fossil_ml_phase_t
Phases == { "TRAIN", "EVAL", "PREDICT" }

\* calloc or malloc of n cells, taken to succeed; a request for no cell at
\* all returns NULL (-1) or an empty block, as the platform chooses.
alloc_cells(n, empty_is_null) == IF n = 0 /\ empty_is_null THEN -1 ELSE n

\* What an algorithm hands back: its status, the model it leaves, and
\* whether it read or wrote outside an array or through a null pointer.
Trained(status, m, ub) == [rc |-> status, model |-> m, ub |-> ub]

\* linear_train. The epochs read and write weights[0 .. f - 1] for every
\* sample; the values computed are not represented, only the cells held.
linear_train(m, d, empty_is_null) ==
    IF ~d.labelled THEN Trained(-2, m, FALSE)
    ELSE LET f == d.features
             fitted == IF m.weights = -1
                       THEN [m EXCEPT !.features = f,
                                      !.weights = alloc_cells(f, empty_is_null)]
                       ELSE m
         IN Trained(0, fitted, d.samples > 0 /\ f > 0 /\ f > fitted.weights)

\* linear_predict: for every sample it reads weights[j] and
\* x[i * m->features + j] for j < m->features, and writes y[i].
linear_predict(m, d) ==
    IF m.weights = -1 THEN Trained(-1, m, FALSE)
    ELSE Trained(0, m,
                 /\ d.samples > 0
                 /\ \/ ~d.labelled
                    \/ /\ m.features > 0
                       /\ (m.features > m.weights \/ m.features > d.features))

\* kmeans_train: the first call fixes k = 2 and features and copies
\* k * features cells of x into the centroids; every iteration then indexes
\* centroids[c * m->features + j] for c < k, j < d->features and clears
\* k * m->features cells.
kmeans_train(m, d, empty_is_null) ==
    LET first == m.centroids = -1
        seeded == IF first
                  THEN [m EXCEPT !.k = 2,
                                 !.features = d.features,
                                 !.centroids =
                                     alloc_cells(2 * d.features, empty_is_null)]
                  ELSE m
        copied == 2 * d.features
        last == (seeded.k - 1) * seeded.features + d.features
        cleared == seeded.k * seeded.features
    IN Trained(0, seeded,
               \/ first /\ copied > d.samples * d.features
               \/ d.features > 0 /\ last > seeded.centroids
               \/ cleared > 0 /\ cleared > seeded.centroids)

\* fossil_algorithm_ml_exec.
ml_dispatch(m, d, id, ph, empty_is_null) ==
    IF m = NoModel \/ d.null \/ id = NULL THEN Trained(-2, m, FALSE)
    ELSE IF algo_eq(id, "linear-regression")
    THEN IF ph = "TRAIN" THEN linear_train(m, d, empty_is_null)
         ELSE IF ph = "PREDICT" THEN linear_predict(m, d)
         ELSE Trained(0, m, FALSE)
    ELSE IF algo_eq(id, "kmeans")
    THEN IF ph # "TRAIN" THEN Trained(-4, m, FALSE)
         ELSE kmeans_train(m, d, empty_is_null)
    ELSE Trained(-3, m, FALSE)

fossil_algorithm_ml_supported(id) ==
    algo_eq(id, "linear-regression") \/ algo_eq(id, "kmeans")

fossil_algorithm_ml_requires_labels(id) ==
    \/ algo_eq(id, "linear-regression")
    \/ algo_eq(id, "logistic-regression")
    \/ algo_eq(id, "svm")

\* The graph engine, the string algorithms and the dynamic module unused by
\* these calls.
OnlyLearning ==
    UNCHANGED << engine, binding, answers, input, arg, output, output_size,
                 cxx_output, alg, created_id, ran, param, metric >>

\* fossil_algorithm_ml_model_create; calloc is taken to succeed.
fossil_algorithm_ml_model_create ==
    /\ pc = "idle"
    /\ \E id \in ModelIds :
          model' = IF id = NULL THEN NoModel ELSE NewModel(id)
    /\ pc' = "created"
    /\ UNCHANGED << algorithm_id, rc, dataset, phase, trained >>
    /\ OnlyLearning

\* fossil_algorithm_ml_exec on the caller's model, which is null before
\* create and when create returned NULL. A call that went through undefined
\* behaviour traps or returns its status. The metric callback can only cut
\* the epochs short; it changes neither the status nor the cells held.
fossil_algorithm_ml_exec ==
    /\ pc \in {"idle", "created", "done"}
    /\ \E d \in Datasets \cup {NoDataset}, id \in MlIds, ph \in Phases,
          empty_is_null \in BOOLEAN :
          LET r == ml_dispatch(model, d, id, ph, empty_is_null)
          IN /\ dataset' = d
             /\ algorithm_id' = id
             /\ phase' = ph
             /\ model' = r.model
             /\ rc' = r.rc
             /\ pc' \in IF r.ub THEN {"undefined", "done"} ELSE {"done"}
             /\ trained' = (\/ trained
                            \/ /\ algo_eq(id, "linear-regression")
                               /\ ph = "TRAIN"
                               /\ r.rc = 0
                               /\ model # NoModel
                               /\ ~d.null)
    /\ OnlyLearning

\* fossil_algorithm_ml_model_destroy: a null model is left alone, a live
\* one is freed with its arrays and not used again.
fossil_algorithm_ml_model_destroy ==
    /\ pc \in {"created", "done"}
    /\ model' = IF model = NoModel THEN model ELSE [model EXCEPT !.live = FALSE]
    /\ pc' = "destroyed"
    /\ UNCHANGED << algorithm_id, rc, dataset, phase, trained >>
    /\ OnlyLearning

InitLearning ==
    /\ NoGraphCall
    /\ NoHandleYet
    /\ NoModelYet
    /\ algorithm_id = NULL
    /\ binding = "C"
    /\ input = NULL
    /\ arg = NULL
    /\ output = NoBuffer
    /\ output_size = 0
    /\ cxx_output = NULL
    /\ param = << >>
    /\ metric = FALSE

NextLearning ==
    \/ fossil_algorithm_ml_model_create
    \/ fossil_algorithm_ml_exec
    \/ fossil_algorithm_ml_model_destroy

SpecLearning == InitLearning /\ [][NextLearning]_vars

\* ----------------------------------------------------------- the claims

Done == pc = "done"

Supported == {"bfs", "dfs", "dijkstra"}

Traversals == {"bfs", "dfs"}

\* The edges stored for node v, as the claims read the graph.
StoredEdges(v) == IF g.adj = AdjNull THEN << >> ELSE g.adj[v]

\* Nodes one stored edge away from v.
Succ(v) == { StoredEdges(v)[i].to : i \in 1 .. Len(StoredEdges(v)) }

\* Nodes reachable from s along stored edges, s included.
RECURSIVE ReachFrom(_)
ReachFrom(S) ==
    LET T == S \cup UNION { Succ(v) : v \in S }
    IN IF T = S THEN S ELSE ReachFrom(T)

Reachable(s) == ReachFrom({s})

\* A bfs or dfs call that passed the dispatcher's checks.
ValidTraversal ==
    /\ graph_arg
    /\ algorithm_id \in Traversals
    /\ start_node < g.node_count

\* C1: a call with a null graph or a null algorithm_id returns -2, whatever
\* the other arguments are, an unknown identifier included.
C1_NullArgsInvalid ==
    (Done /\ (~graph_arg \/ algorithm_id = NULL)) => rc = -2

C1_Witness ==
    /\ Done
    /\ ~graph_arg
    /\ algorithm_id = "mst-kruskal"
    /\ visit # NoVisitor
    /\ rc = -2

\* C2: on a non-null graph, every identifier string other than bfs, dfs and
\* dijkstra makes exec return -3 and supported() answer false.
C2_UnknownUnsupported ==
    (Done /\ graph_arg /\ algorithm_id \notin (Supported \cup {NULL}))
        => /\ rc = -3
           /\ ~fossil_algorithm_graph_supported(algorithm_id)

C2_Witness ==
    /\ Done
    /\ graph_arg
    /\ g.node_count = 0
    /\ algorithm_id = "bellman-ford"
    /\ rc = -3

\* C3: on a graph with node_count = 0 every supported algorithm returns -2,
\* whatever start_node, target_node, the weighted flag and the visitor are.
C3_EmptyGraphInvalid ==
    (Done /\ graph_arg /\ g.node_count = 0 /\ algorithm_id \in Supported)
        => rc = -2

C3_Witness ==
    /\ Done
    /\ graph_arg
    /\ g.node_count = 0
    /\ ~g.weighted
    /\ algorithm_id = "dijkstra"
    /\ visit # NoVisitor
    /\ rc = -2

\* C4 as stated: dijkstra on any unweighted graph returns -4.
C4_UnweightedAlwaysMinus4 ==
    (Done /\ graph_arg /\ ~g.weighted /\ algorithm_id = "dijkstra")
        => rc = -4

\* C4 as amended: dijkstra on an unweighted graph with node_count > 0 returns
\* -4 regardless of the node ids; with node_count = 0 it returns -2.
C4_UnweightedNonEmpty ==
    (Done /\ graph_arg /\ ~g.weighted /\ algorithm_id = "dijkstra")
        => rc = IF g.node_count > 0 THEN -4 ELSE -2

C4_Witness ==
    /\ Done
    /\ graph_arg
    /\ ~g.weighted
    /\ g.node_count > 0
    /\ algorithm_id = "dijkstra"
    /\ start_node >= g.node_count
    /\ target_node >= g.node_count
    /\ rc = -4

\* C5: on a graph with node_count > 0, bfs and dfs return -2 when start_node
\* is out of range, and dijkstra on a weighted graph returns -2 when
\* start_node or target_node is out of range.
C5_NodeIdOutOfRange ==
    (Done /\ graph_arg /\ g.node_count > 0)
        => /\ (algorithm_id \in Traversals /\ start_node >= g.node_count)
                => rc = -2
           /\ (/\ algorithm_id = "dijkstra"
               /\ g.weighted
               /\ (start_node >= g.node_count \/ target_node >= g.node_count))
                => rc = -2

C5_Witness ==
    /\ Done
    /\ graph_arg
    /\ g.node_count > 0
    /\ g.weighted
    /\ algorithm_id = "dijkstra"
    /\ start_node < g.node_count
    /\ target_node >= g.node_count
    /\ rc = -2

Min(a, b) == IF a <= b THEN a ELSE b

Range(seq) == { seq[i] : i \in 1 .. Len(seq) }

\* A dijkstra call that passed the dispatcher's checks.
ValidDijkstra ==
    /\ graph_arg
    /\ algorithm_id = "dijkstra"
    /\ g.weighted
    /\ start_node < g.node_count
    /\ target_node < g.node_count

\* Sum of the weights of all stored edges.
RECURSIVE SeqWeight(_)
SeqWeight(es) == IF es = << >> THEN 0 ELSE Head(es).weight + SeqWeight(Tail(es))

RECURSIVE WeightOver(_)
WeightOver(S) ==
    IF S = {} THEN 0
    ELSE LET v == CHOOSE x \in S : TRUE
         IN SeqWeight(StoredEdges(v)) + WeightOver(S \ {v})

TotalWeight == WeightOver(Nodes(g.node_count))

\* C6 as stated: dijkstra on a weighted graph with valid endpoints and
\* non-negative weights returns 0 exactly when target_node is reachable from
\* start_node along stored edges, and -1 otherwise.
C6_DijkstraIffReachable ==
    (Done /\ ValidDijkstra)
        => rc = IF target_node \in Reachable(start_node) THEN 0 ELSE -1

\* C6, where the code agrees: when no path can weigh DBL_MAX or more (the
\* stored weights together stay below DBL_MAX), the status is 0 exactly when
\* target_node is reachable, and -1 otherwise.
C6_BelowSentinel ==
    (Done /\ ValidDijkstra /\ TotalWeight < DBL_MAX)
        => rc = IF target_node \in Reachable(start_node) THEN 0 ELSE -1

C8_EarlyStop ==
    (ValidTraversal /\ visit >= 1 /\ pc \in {"bfs", "dfs", "done"})
        => /\ Len(calls) <= visit
           /\ Done =>
                /\ rc = 0
                /\ Len(calls) =
                      Min(visit, Cardinality(Reachable(start_node)))

\* dfs stopped by the visitor below the top recursion level, nodes left over.
C8_Witness ==
    /\ Done
    /\ ValidTraversal
    /\ algorithm_id = "dfs"
    /\ visit = 2
    /\ Len(calls) = 2
    /\ Cardinality(Reachable(start_node)) = 3
    /\ rc = 0

C10_RepeatedCallSame ==
    (Done /\ round = 2 /\ graph_arg /\ algorithm_id \in Traversals)
        => /\ rc = prev.rc
           /\ calls = prev.calls
           /\ marked = prev.marked

\* The second bfs runs on the blocks the first one freed.
C10_Witness ==
    /\ Done
    /\ round = 2
    /\ ValidTraversal
    /\ algorithm_id = "bfs"
    /\ visit = 0
    /\ Len(calls) = 3
    /\ calls = prev.calls
    /\ stale.queue # NoArray

\* C11: no step changes the graph; the visitor is invoked only inside a bfs
\* or dfs traversal that passed validation; a call that ran dijkstra or that
\* returned -2, -3 or -4 has made no visitor invocation.
C11_OnlyVisitorEffect ==
    [][ /\ g' = g
        /\ (Len(calls') > Len(calls)) => (pc \in {"bfs", "dfs"} /\ ValidTraversal)
        /\ (pc' = "done" /\ (algorithm_id' = "dijkstra" \/ rc' \in {-2, -3, -4}))
              => calls' = << >> ]_vars

\* dijkstra found a path over an edge while a visitor was supplied.
C11_Witness ==
    /\ Done
    /\ ValidDijkstra
    /\ visit = 0
    /\ start_node # target_node
    /\ rc = 0
    /\ calls = << >>

\* C12: supported() answers true exactly for bfs, dfs and dijkstra, and
\* requires_weights() exactly for dijkstra, bellman-ford and floyd-warshall,
\* by exact case-sensitive match; both answer false for NULL and "".
C12_CatalogExact ==
    pc = "answered"
        => /\ answers.supported = (algorithm_id \in {"bfs", "dfs", "dijkstra"})
           /\ answers.requires_weights =
                 (algorithm_id \in {"dijkstra", "bellman-ford",
                                    "floyd-warshall"})

\* A reserved name requires weights and is not supported.
C12_Witness ==
    /\ pc = "answered"
    /\ algorithm_id = "floyd-warshall"
    /\ answers.requires_weights
    /\ ~answers.supported

\* The working arrays of the call could be allocated.
Allocated ==
    heap >= (IF algorithm_id = "dfs" THEN 1 ELSE ArraysPerCall)

\* C13 as stated: a validated bfs or dfs always returns 0, and no bfs or dfs
\* call returns -1.
C13_TraversalAlwaysZero ==
    /\ (Done /\ ValidTraversal) => rc = 0
    /\ (Done /\ rc = -1) => algorithm_id = "dijkstra"

\* C13 as amended: a validated bfs or dfs returns 0, by exhaustion or early
\* stop, when its working arrays can be allocated and -1 when calloc or
\* malloc fails; no other bfs or dfs call returns -1.
C13_ZeroUnlessOutOfMemory ==
    /\ (Done /\ ValidTraversal) => rc = IF Allocated THEN 0 ELSE -1
    /\ (Done /\ rc = -1 /\ algorithm_id # "dijkstra")
          => (ValidTraversal /\ ~Allocated)

\* bfs got its visited flags but not its queue.
C13_Witness ==
    /\ Done
    /\ ValidTraversal
    /\ algorithm_id = "bfs"
    /\ heap = 1
    /\ rc = -1

\* Destinations of the edges stored for v, in list order.
Dests(v) == [i \in 1 .. Len(StoredEdges(v)) |-> StoredEdges(v)[i].to]

\* The members of ds not in seen, first occurrences only, in order.
RECURSIVE Fresh(_, _)
Fresh(ds, seen) ==
    IF ds = << >> THEN << >>
    ELSE IF Head(ds) \in seen THEN Fresh(Tail(ds), seen)
    ELSE << Head(ds) >> \o Fresh(Tail(ds), seen \cup {Head(ds)})

\* Breadth-first order computed from node_count-free data: the stored
\* destinations only.
RECURSIVE BfsOrder(_, _)
BfsOrder(q, seen) ==
    IF q = << >> THEN << >>
    ELSE LET new == Fresh(Dests(Head(q)), seen)
         IN << Head(q) >> \o BfsOrder(Tail(q) \o new, seen \cup Range(new))

\* Depth-first preorder computed from the stored destinations only.
RECURSIVE DfsOrder(_, _)
DfsOrder(todo, acc) ==
    IF todo = << >> THEN acc
    ELSE IF Head(todo) \in Range(acc) THEN DfsOrder(Tail(todo), acc)
    ELSE DfsOrder(Dests(Head(todo)) \o Tail(todo), Append(acc, Head(todo)))

\* The visitor invocations a traversal makes, as a function of the stored
\* destinations, the algorithm, start_node and the visitor alone.
ExpectedCalls ==
    LET order == IF algorithm_id = "bfs"
                 THEN BfsOrder(<< start_node >>, {start_node})
                 ELSE DfsOrder(<< start_node >>, << >>)
    IN IF visit = NoVisitor THEN << >>
       ELSE IF visit = 0 THEN order
       ELSE SubSeq(order, 1, Min(visit, Len(order)))

\* C14: the status and the visitor invocations of bfs and dfs are determined
\* by the stored destinations, the algorithm, start_node and the visitor:
\* target_node, the directed flag, the weighted flag and the weights have no
\* influence, and no reverse edge is followed on an undirected graph.
C14_UnusedInputsIgnored ==
    (Done /\ ValidTraversal)
        => /\ rc = 0
           /\ calls = ExpectedCalls

\* An undirected weighted graph whose only edge leads into start_node, with a
\* weight other than 1 and a target_node out of range.
C14_Witness ==
    /\ Done
    /\ ValidTraversal
    /\ ~g.directed
    /\ g.weighted
    /\ g.node_count = 2
    /\ start_node = 1
    /\ target_node >= g.node_count
    /\ visit = 0
    /\ StoredEdges(0) = << [to |-> 1, weight |-> 0] >>
    /\ StoredEdges(1) = << >>
    /\ calls = << 1 >>
    /\ rc = 0

\* C15: fossil_algorithm_cstring_exec returns -2 for a null input or a null
\* algorithm_id; otherwise it returns -3 exactly when
\* fossil_algorithm_cstring_supported rejects the identifier.
C15_UnsupportedIffNotInCatalog ==
    (Done /\ binding = "C")
        => IF input = NULL \/ algorithm_id = NULL THEN rc = -2
           ELSE (rc = -3) = ~fossil_algorithm_cstring_supported(algorithm_id)

\* The documented but unlisted "compare" on a valid input.
C15_Witness ==
    /\ Done
    /\ binding = "C"
    /\ input = "ab"
    /\ arg = "ab"
    /\ algorithm_id = "compare"
    /\ rc = -3

\* The string s with its characters in reverse order.
RECURSIVE Rev(_)
Rev(s) == IF s = "" THEN "" ELSE Rev(Tail(s)) \o Head(s)

C17_WrapperNullOutputZero ==
    (Done /\ binding = "C++" /\ algorithm_id = "reverse" /\ cxx_output = NULL)
        => rc = 0

\* C17, what the code does: without an output string the wrapper passes a
\* null buffer and reverse reports invalid input.
C17_WrapperNullOutputInvalid ==
    (Done /\ binding = "C++" /\ algorithm_id = "reverse" /\ cxx_output = NULL)
        => rc = -2

\* A dynamic exec has returned or has gone wrong.
ExecEnded == pc \in {"done", "undefined"}

CapacityGiven ==
    \A i \in 1 .. Len(param) :
        param[i].key = "capacity" => param[i].value # NULL

KnapsackDefaultCall ==
    /\ pc = "done"
    /\ binding = "C++"
    /\ alg # NoHandle
    /\ created_id = "dp-knapsack"
    /\ algorithm_id = "dp-knapsack"
    /\ param = << >>
    /\ ~metric

\* C20: Dynamic::exec for dp-knapsack on a matching handle with default
\* parameters returns 0, the optimum of an empty knapsack.
C20_WrapperKnapsackDefaultZero == KnapsackDefaultCall => rc = 0

\* What the wrapper returns for that call: invalid input.
C20_WrapperKnapsackDefaultInvalid == KnapsackDefaultCall => rc = -2

\* A handle exists: create returned one. Before create the caller holds none.
Created == pc \in {"created", "done", "undefined", "destroyed"}

\* C21: the dynamic module treats an empty algorithm identifier like a
\* missing one: Dynamic::create("") returns NULL, and Dynamic::exec on a
\* valid handle with the identifier "" returns -2.
C21_EmptyIdLikeMissing ==
    binding = "C++" =>
        /\ (Created /\ created_id = "") => alg = NoHandle
        /\ (ExecEnded /\ alg # NoHandle /\ algorithm_id = "") => rc = -2

\* What the module does with "": create builds a handle whose algorithm is
\* the empty string, and exec on a handle returns -3, the status of a
\* mismatch or of an unknown algorithm.
C21_EmptyIdIsAnIdentifier ==
    /\ (Created /\ created_id = "") => alg # NoHandle /\ alg.algorithm = ""
    /\ (ExecEnded /\ alg # NoHandle /\ algorithm_id = "") =>
           pc = "done" /\ rc = -3 /\ ran = NULL

\* The n the dp-fib branch computes from the parameters.
RequestedN == scan_int(param, "n", 10, FALSE)

\* dp-fib has run on parameters whose n values atoi can read.
FibRan == ExecEnded /\ ran = "dp-fib" /\ ~RequestedN.ub

\* F(n) for n >= 1, kept with its predecessor: << F(n - 1), F(n) >>.
FibPair[n \in 1 .. 46] ==
    IF n = 1 THEN << 0, 1 >>
    ELSE LET p == FibPair[n - 1] IN << p[2], p[1] + p[2] >>

\* The n-th Fibonacci number, for the n whose F(n) fits 32 bits.
Fibonacci(n) == IF n = 0 THEN 0 ELSE FibPair[n][2]

\* C22: dp-fib returns the n-th Fibonacci number for the parameter n, F(10)
\* = 55 without one; for every n >= 0 the result is non-negative and outside
\* the error range, also when F(n) exceeds a 32-bit signed int; for n < 0 it
\* returns -1.
C22_FibNonNegative ==
    FibRan =>
        /\ pc = "done"
        /\ RequestedN.n < 0 => rc = -1
        /\ RequestedN.n >= 0 => rc >= 0
        /\ RequestedN.n \in 0 .. 46 => rc = Fibonacci(RequestedN.n)

\* What dp-fib does: exact while F(n) fits (n <= 46), -1 for n < 0; from
\* n = 47 on the additions overflow, and a run that returns hands back the
\* wrapped sum.
C22_FibWhileItFits ==
    FibRan =>
        /\ RequestedN.n < 0 => pc = "done" /\ rc = -1
        /\ RequestedN.n \in 0 .. 46 =>
               pc = "done" /\ rc = Fibonacci(RequestedN.n)
        /\ (RequestedN.n = 47 /\ pc = "done") => rc = -1323752223

\* C30: for every identifier the dynamic catalog lists, exec on a handle
\* created with it and called with it does not return -3.
C30_CatalogMatchesDispatcher ==
    (/\ pc = "done"
     /\ alg # NoHandle
     /\ algorithm_id = created_id
     /\ fossil_algorithm_dynamic_supported(created_id)) => rc # -3

\* The catalog entries the dispatcher runs; adaptive-search is listed but
\* has no branch, and exec returns -3 for it.
C30_DispatchedEntries ==
    (/\ pc = "done"
     /\ alg # NoHandle
     /\ algorithm_id = created_id
     /\ fossil_algorithm_dynamic_supported(created_id)) =>
        (rc = -3 <=> created_id = "adaptive-search")

\* fossil_algorithm_ml_exec has ended on a model and a dataset, both given.
LearningEnded == ExecEnded /\ model # NoModel /\ ~dataset.null

\* The last call was linear-regression in phase ph.
Linear(ph) ==
    LearningEnded /\ algorithm_id = "linear-regression" /\ phase = ph

\* C23: model state persists across calls. For linear-regression, PREDICT
\* returns -1 as long as no TRAIN on the model has returned 0 (a TRAIN on a
\* dataset without labels returns -2 and leaves the model untrained) and
\* returns 0 in every PREDICT after a successful TRAIN; kmeans in a phase
\* other than TRAIN returns -4.
C23_ModelStatePersists ==
    /\ (Linear("PREDICT") /\ ~trained) => pc = "done" /\ rc = -1
    /\ (Linear("TRAIN") /\ ~dataset.labelled) => pc = "done" /\ rc = -2
    /\ (Linear("PREDICT") /\ trained) => pc = "done" /\ rc = 0
    /\ (LearningEnded /\ algorithm_id = "kmeans" /\ phase # "TRAIN") =>
           pc = "done" /\ rc = -4

\* The dataset of the last call fits the model: it has labels to write the
\* predictions to and the feature count the model holds weights for.
Fitting ==
    /\ dataset.labelled
    /\ model.features <= dataset.features
    /\ model.features <= model.weights

\* What persists: the untrained model answers -1, TRAIN without labels -2,
\* kmeans outside TRAIN -4, and PREDICT after a successful TRAIN answers 0
\* when the model kept a weights array and the dataset fits it.
C23_PersistsOnFittingData ==
    /\ (Linear("PREDICT") /\ ~trained) => pc = "done" /\ rc = -1
    /\ (Linear("TRAIN") /\ ~dataset.labelled) => pc = "done" /\ rc = -2
    /\ (Linear("PREDICT") /\ trained /\ model.weights # -1 /\ Fitting) =>
           pc = "done" /\ rc = 0
    /\ (LearningEnded /\ algorithm_id = "kmeans" /\ phase # "TRAIN") =>
           pc = "done" /\ rc = -4

\* PREDICT on a trained model and a dataset without labels: the predictions
\* are written through the null y.
C23_PredictWithoutLabels ==
    /\ Linear("PREDICT")
    /\ trained
    /\ model.weights > 0
    /\ ~dataset.labelled
    /\ dataset.samples > 0
    /\ pc = "undefined"

\* The least number of stored edges on a path from the nodes of front to v
\* (node_count and more when there is no path).
RECURSIVE HopSearch(_, _, _)
HopSearch(front, seen, v) ==
    IF v \in front THEN 0
    ELSE IF front = {} THEN g.node_count
    ELSE 1 + HopSearch((UNION { Succ(u) : u \in front }) \ (seen \cup front),
                       seen \cup front, v)

\* Hop distance of v from start_node.
HopDistance(v) == HopSearch({start_node}, {}, v)

\* The position in calls of the node from which calls[j] was discovered:
\* the first visited node that stores an edge to it.
Discoverer(j) ==
    CHOOSE i \in 1 .. Len(calls) :
        /\ calls[j] \in Succ(calls[i])
        /\ \A h \in 1 .. (i - 1) : calls[j] \notin Succ(calls[h])

\* The position of the first edge to v in the adjacency list of u.
EdgePosition(u, v) ==
    CHOOSE i \in 1 .. Len(Dests(u)) :
        /\ Dests(u)[i] = v
        /\ \A h \in 1 .. (i - 1) : Dests(u)[h] # v

\* A bfs or dfs with a visitor that always returns true is running or has
\* returned.
Walking(id) ==
    /\ pc \in {id, "done"}
    /\ algorithm_id = id
    /\ graph_arg
    /\ visit = 0

\* C24: BFS visit order with a visitor that always returns true: the first
\* node visited is start_node, the nodes are visited in non-decreasing order
\* of hop distance from start_node, and the nodes discovered from one node
\* are visited in that node's adjacency order.
C24_BfsLevelOrder ==
    Walking("bfs") =>
        /\ (Done /\ rc = 0) => calls # << >>
        /\ calls # << >> => calls[1] = start_node
        /\ \A i, j \in 1 .. Len(calls) :
               i < j => HopDistance(calls[i]) <= HopDistance(calls[j])
        /\ \A i, j \in 2 .. Len(calls) :
               (i < j /\ Discoverer(i) = Discoverer(j)) =>
                   EdgePosition(calls[Discoverer(i)], calls[i])
                       < EdgePosition(calls[Discoverer(i)], calls[j])

\* A finished bfs on a diamond whose start stores its two edges with the
\* node of higher id first: both are visited after start_node, in adjacency
\* order, and the edge between them adds no visit.
C24_Witness ==
    /\ Done
    /\ Walking("bfs")
    /\ rc = 0
    /\ Len(calls) = 3
    /\ Dests(start_node) = << calls[2], calls[3] >>
    /\ calls[2] > calls[3]
    /\ calls[2] \in Succ(calls[3])

\* The nodes visited before the j-th visit.
SeenBefore(j) == { calls[i] : i \in 1 .. (j - 1) }

\* The positions before j of the nodes that store an edge to a node not
\* visited before the j-th visit.
Open(j) == { i \in 1 .. (j - 1) : ~(Succ(calls[i]) \subseteq SeenBefore(j)) }

\* The largest member of a non-empty set of positions.
Latest(S) == CHOOSE i \in S : \A h \in S : h <= i

\* C25: DFS visit order with a visitor that always returns true is the
\* pre-order of the depth-first walk: no node is visited twice, and every
\* visit after the first goes to the first unvisited neighbour, in adjacency
\* order, of the most recently visited node that still has one; the walk
\* ends when no visited node has an unvisited neighbour.
C25_DfsPreOrder ==
    Walking("dfs") =>
        /\ (Done /\ rc = 0) =>
               /\ calls # << >>
               /\ Open(Len(calls) + 1) = {}
        /\ calls # << >> => calls[1] = start_node
        /\ \A i, j \in 1 .. Len(calls) : i < j => calls[i] # calls[j]
        /\ \A j \in 2 .. Len(calls) :
               /\ Open(j) # {}
               /\ calls[j] =
                      Head(Fresh(Dests(calls[Latest(Open(j))]), SeenBefore(j)))

\* A finished dfs on a diamond whose start stores the edge to a before the
\* one to b: b is visited through a, deeper in the first branch, and not
\* again from start.
C25_Witness ==
    /\ Done
    /\ Walking("dfs")
    /\ rc = 0
    /\ Len(calls) = 3
    /\ Dests(start_node) = << calls[2], calls[3] >>
    /\ calls[3] \in Succ(calls[2])

\* C26: BFS queue invariant on graphs whose destinations are all in range:
\* 0 <= head <= tail <= node_count, no node id occurs twice in
\* queue[0 .. tail), every queued node is marked visited, and no write to
\* queue or visited falls outside the node_count cells of the array, with
\* self-loops, parallel edges and cycles as well.
C26_QueueInvariant ==
    (algorithm_id = "bfs" /\ pc \in {"bfs", "undefined"}) =>
        /\ pc = "bfs"
        /\ DOMAIN queue = Nodes(g.node_count)
        /\ DOMAIN visited = Nodes(g.node_count)
        /\ 0 <= head
        /\ head <= tail
        /\ tail <= g.node_count
        /\ \A i, j \in 0 .. (tail - 1) : i # j => queue[i] # queue[j]
        /\ \A i \in 0 .. (tail - 1) :
               queue[i] \in Nodes(g.node_count) /\ visited[queue[i]]

\* The queue is full: start_node stores a self-loop and two parallel edges
\* to another node, and every one of the node_count cells has been written.
C26_Witness ==
    /\ pc = "bfs"
    /\ algorithm_id = "bfs"
    /\ g.node_count = 2
    /\ Len(Dests(start_node)) = 2
    /\ \/ Dests(start_node)[1] = start_node
       \/ Dests(start_node)[1] = Dests(start_node)[2]
    /\ head = 1
    /\ tail = g.node_count

\* The length of the lightest walk of at most k stored edges from start_node
\* to each node; Unreached stands for "no such walk".
Unreached == g.node_count * DBL_MAX + 1

Lighter(a, b) == IF a < b THEN a ELSE b

RECURSIVE Least(_)
Least(S) ==
    IF S = {} THEN Unreached
    ELSE LET x == CHOOSE y \in S : TRUE
         IN Lighter(x, Least(S \ {x}))

RECURSIVE WalkLength(_)
WalkLength(k) ==
    IF k = 0
    THEN [v \in Nodes(g.node_count) |->
            IF v = start_node THEN 0 ELSE Unreached]
    ELSE LET D == WalkLength(k - 1)
         IN [v \in Nodes(g.node_count) |->
               Lighter(D[v],
                       Least(UNION {
                           { Lighter(Unreached, D[u] + StoredEdges(u)[i].weight) :
                               i \in { j \in 1 .. Len(StoredEdges(u)) :
                                         StoredEdges(u)[j].to = v } } :
                           u \in { x \in Nodes(g.node_count) :
                                     D[x] # Unreached } }))]

\* The true shortest distance from start_node to v.
ShortestDistance(v) == WalkLength(g.node_count)[v]

\* The relaxation loop that leaves finalized destinations alone.
RECURSIVE relax_unused(_, _, _, _)
relax_unused(es, v, d, u) ==
    IF es = << >> THEN d
    ELSE LET e == Head(es)
             alt == d[v] + e.weight
         IN relax_unused(Tail(es), v,
                         IF ~u[e.to] /\ alt < d[e.to]
                         THEN [d EXCEPT ![e.to] = alt]
                         ELSE d,
                         u)

\* graph_dijkstra is in its main loop.
Relaxing == pc = "dijkstra" /\ algorithm_id = "dijkstra"

\* The finalized nodes hold their true shortest distance, and no node still
\* open is nearer than a finalized one.
FinalizedExact ==
    Relaxing =>
        \A v \in Nodes(g.node_count) :
            used[v] =>
                /\ dist[v] = ShortestDistance(v)
                /\ \A o \in Nodes(g.node_count) : ~used[o] => dist[v] <= dist[o]

\* One pass of the main loop finalizes a node no nearer than those finalized
\* before, changes no finalized distance, and leaves in dist what the loop
\* restricted to open destinations would leave.
FinalizedKept ==
    (Relaxing /\ pc' = "dijkstra" /\ used' # used) =>
        /\ \A v \in Nodes(g.node_count) :
              used[v] => dist'[v] = dist[v] /\ dist[v] <= dist[Selected]
        /\ \A v \in Nodes(g.node_count) :
              used'[v] => dist'[v] = dist[v]
        /\ dist' = relax_unused(EdgesOf(Selected), Selected, dist, used')

\* C27: Dijkstra invariant for non-negative weights: a finalized node's
\* distance is its true shortest distance from start, nodes are finalized in
\* non-decreasing order of distance, and a finalized distance never changes
\* although every edge is relaxed without looking at used[]; the distances
\* are those of the relaxation restricted to nodes not yet finalized.
C27_DijkstraInvariant == []FinalizedExact /\ [][FinalizedKept]_vars

\* A node at distance 0 through the lighter way and a node whose edge leads
\* back to a finalized node have both been finalized: the first stored
\* weight 1 was lowered, and the loop relaxed an edge onto a finalized node.
C27_Witness ==
    /\ Relaxing
    /\ g \in Shortcuts
    /\ \A v \in Nodes(g.node_count) : used[v] /\ dist[v] = 0
    /\ \E v \in Nodes(g.node_count) :
          /\ \E i \in 1 .. Len(StoredEdges(start_node)) :
                /\ StoredEdges(start_node)[i].to = v
                /\ StoredEdges(start_node)[i].weight = 1
          /\ \E i \in 1 .. Len(StoredEdges(v)) :
                StoredEdges(v)[i].to = start_node

\* An engine is in its loop.
Running == pc \in {"bfs", "dfs", "dijkstra"}

\* What bounds the loops: a dequeue is one of at most node_count, and
\* dfs_visit is entered on a node that is not yet marked.
LoopsBounded ==
    /\ (pc = "bfs" /\ head < tail) => head + 1 <= g.node_count
    /\ (pc = "dfs" /\ stack # << >> /\ Top.at = "entry") =>
           /\ ~visited[Top.v]
           /\ Cardinality(MarkedIn(visited)) < g.node_count

\* A pass of Dijkstra's main loop that does not break finalizes a node that
\* was not finalized before.
FinalizesNew ==
    (pc = "dijkstra" /\ pc' = "dijkstra") =>
        /\ ~used[Selected]
        /\ MarkedIn(used') = MarkedIn(used) \cup {Selected}

\* C28: on every finite graph whose destinations are in range, bfs, dfs and
\* dijkstra terminate: BFS dequeues at most node_count nodes, DFS enters at
\* most node_count nodes, each pass of Dijkstra's loop finalizes a new node.
C28_EnginesTerminate ==
    /\ []LoopsBounded
    /\ [][FinalizesNew]_vars
    /\ Running ~> (pc = "done")

\* A traversal of a two-node cycle has returned after marking both nodes.
C28_Witness ==
    /\ pc = "done"
    /\ rc = 0
    /\ algorithm_id \in {"bfs", "dfs"}
    /\ visit = NoVisitor
    /\ g.node_count = 2
    /\ 1 \in Succ(0)
    /\ 0 \in Succ(1)
    /\ marked = {0, 1}

\* Some stored edge leads to a node id that is not below node_count.
DestinationOutOfRange ==
    \E v \in Nodes(g.node_count) :
        \E i \in 1 .. Len(StoredEdges(v)) :
            StoredEdges(v)[i].to >= g.node_count

\* C29: when walking edges, bfs, dfs and dijkstra check each destination
\* against node_count; a destination >= node_count is never used as an
\* index into the visited, queue or distance arrays.
C29_DestinationsChecked == pc # "undefined"

\* C29 (what the engines do guarantee): an array is indexed outside its
\* cells only on a graph that stores a destination out of range.
C29_InRangeGraphsAreSafe == pc = "undefined" => DestinationOutOfRange

====
